---- MODULE Spec2Model ----
(***************************************************************************)
(* Model of the glue-runtime registration / dispatch core                  *)
(* (src/runtimeSupport.ts, src/logging.ts, src/logging/serialization.ts).  *)
(*                                                                         *)
(* JavaScript is single threaded: a synchronous execution unit (the module *)
(* top level, a timer callback, the synchronous part of a request          *)
(* handler) runs to completion, then the microtask queue is drained, then  *)
(* the next I/O callback runs.  inSync says that user code of a            *)
(* synchronous unit is running; microtasks counts the queued deferred      *)
(* initialisations (Promise.resolve().then(...) of scheduleInit).          *)
(***************************************************************************)
EXTENDS Integers, Sequences, FiniteSets, TLC

\* ------------------------------------------------------------------ bounds
MaxRegs == 3        \* registration calls that pass the init gate
MaxRequests == 2    \* triggerEvent requests received
MaxOutside == 1     \* console calls made outside every logging context
MaxGets == 2        \* calls of get()
MaxClock == 1       \* readings of the clock after the first

\* ------------------------------------------------------------------ inputs
NoLabel == "<undefined>"          \* options?.label is undefined
\* The registration calls user code may make.  The Registry* sets are every
\* call over the types, labels, callbacks and configs below; ProgramTriggerCalls
\* are the calls of the programs the dispatch specification runs.
TriggerCall(type, fn, config, label) ==
  [type |-> type, fn |-> fn, config |-> config, label |-> label]
CredentialCall(type, config, label) == [type |-> type, config |-> config, label |-> label]

RegistryTriggerCalls ==
  {TriggerCall(site.type, site.fn, site.config, l) :
     site \in {[type |-> "webhook", fn |-> "h1", config |-> "cfgA"],
               [type |-> "cron", fn |-> "h2", config |-> "cfgB"]},
     l \in {NoLabel, "0"}}
RegistryCredentialCalls ==
  {CredentialCall("webhook", "cfgA", l) : l \in {NoLabel, "0"}}

ProgramTriggerCalls ==
  {TriggerCall("webhook", "h1", "cfgA", NoLabel),
   TriggerCall("webhook", "h3", "cfgB", NoLabel),
   TriggerCall("cron", "h2", "cfgB", "0")}

\* The bodies and the header pairs of the triggerEvent requests.
Malformed == [ok |-> FALSE, type |-> "", label |-> "", data |-> ""]
Body(type, label, data) == [ok |-> TRUE, type |-> type, label |-> label, data |-> data]
Bodies == {Malformed, Body("nope", "0", "x"), Body("webhook", "0", "x"),
           Body("webhook", "1", "y"), Body("cron", "0", "y")}
RegistryBodies == {Body("cron", "0", "y")}
HeaderPairs == {[dep |-> "d1", auth |-> "a1"]}
\* The program and the requests of the logging specification.
LoggingProgram ==
  <<TriggerCall("webhook", "h4", "cfgA", NoLabel), TriggerCall("cron", "h2", "cfgB", "b")>>
LoggingBodies == {Body("webhook", "0", "x"), Body("cron", "b", "y")}
OutsideCalls == {[method |-> "log", args |-> <<[t |-> "string", v |-> "loading"], [t |-> "number", v |-> 2]>>],
                 [method |-> "error", args |-> <<[t |-> "string", v |-> "oops"]>>]}

ClockProgram == <<TriggerCall("webhook", "h4", "cfgA", NoLabel)>>
ClockBodies == {Body("webhook", "0", "x")}
\* The program and the requests of the credential specification: the k-th
\* credential registration has config <<"cred", k>>.
CredentialProgram ==
  <<[kind |-> "credential", type |-> "webhook", fn |-> "", config |-> <<"cred", 1>>,
     label |-> NoLabel],
    [kind |-> "trigger", type |-> "webhook", fn |-> "h5", config |-> "cfgA",
     label |-> NoLabel],
    [kind |-> "credential", type |-> "slack", fn |-> "", config |-> <<"cred", 2>>,
     label |-> NoLabel]>>
CredentialBodies == {Body("webhook", "1", "x")}
CredentialHeaders == {[dep |-> "d1", auth |-> "a1"], [dep |-> "d2", auth |-> "a2"],
                      [dep |-> "<undefined>", auth |-> "<undefined>"]}
\* The requests of the overwrite specification: of two deployments, well
\* formed, malformed and for a trigger that is not registered.
OverwriteBodies == {Body("webhook", "1", "x"), Malformed, Body("nope", "0", "x")}
OverwriteHeaders == {[dep |-> "d1", auth |-> "a1"], [dep |-> "d2", auth |-> "a2"]}
\* The header pairs of the not-ready specification: both present, one
\* absent, one empty, both absent.
NotReadyHeaders == {[dep |-> "d1", auth |-> "a1"], [dep |-> "d1", auth |-> ""],
                    [dep |-> "", auth |-> "a1"], [dep |-> "<undefined>", auth |-> "a1"],
                    [dep |-> "<undefined>", auth |-> "<undefined>"]}
\* The program and the requests of the fetch specification: one handler
\* that catches what get() rejects with and one that does not.
FetchProgram ==
  <<[kind |-> "credential", type |-> "webhook", fn |-> "", config |-> <<"cred", 1>>,
     label |-> NoLabel],
    [kind |-> "trigger", type |-> "webhook", fn |-> "h6", config |-> "cfgA",
     label |-> NoLabel],
    [kind |-> "trigger", type |-> "cron", fn |-> "h7", config |-> "cfgB",
     label |-> NoLabel]>>
FetchBodies == {Body("webhook", "1", "x"), Body("cron", "2", "y")}
\* The program and the requests of the specification of handlers that make
\* registration calls.
ReregisterProgram ==
  <<TriggerCall("webhook", "h8", "cfgA", NoLabel), TriggerCall("cron", "h9", "cfgB", NoLabel)>>
ReregisterBodies == {Body("webhook", "0", "x"), Body("cron", "1", "y")}
\* The registration calls that the program of the frozen-registry
\* specification (FetchProgram) makes from later units of user code.
LateCalls ==
  {[kind |-> "trigger", type |-> "cron", fn |-> "h1", config |-> "cfgB", label |-> "late"],
   [kind |-> "credential", type |-> "webhook", fn |-> "", config |-> "cfgA",
    label |-> NoLabel]}
\* The calls a program makes after its first registration, at the top level
\* or in a later callback: of both kinds, with and without a label.
RejectedCalls ==
  {[kind |-> "trigger", type |-> "cron", fn |-> "h1", config |-> "cfgB", label |-> "late"],
   [kind |-> "trigger", type |-> "cron", fn |-> "h1", config |-> "cfgB", label |-> NoLabel],
   [kind |-> "credential", type |-> "webhook", fn |-> "", config |-> "cfgA", label |-> "late"],
   [kind |-> "credential", type |-> "webhook", fn |-> "", config |-> "cfgA",
    label |-> NoLabel]}
\* The registration calls and the requests of the duplicate specification:
\* two triggers and two credentials for one (type, label), with different
\* handlers and configs.
DuplicateCalls ==
  {[kind |-> "trigger", type |-> "webhook", fn |-> "h1", config |-> "cfgA", label |-> "a"],
   [kind |-> "trigger", type |-> "webhook", fn |-> "h3", config |-> "cfgB", label |-> "a"],
   [kind |-> "credential", type |-> "webhook", fn |-> "", config |-> "cfgA", label |-> "a"],
   [kind |-> "credential", type |-> "webhook", fn |-> "", config |-> "cfgB", label |-> "a"]}
DuplicateBodies == {Body("webhook", "a", "x")}
\* The program and the requests of the counter specification: an explicit
\* "0", an unlabelled call of the same type and kind, an unlabelled
\* credential and an explicit "1" of its type.
CounterProgram ==
  <<[kind |-> "trigger", type |-> "webhook", fn |-> "h1", config |-> "cfgA", label |-> "0"],
    [kind |-> "trigger", type |-> "webhook", fn |-> "h3", config |-> "cfgB",
     label |-> NoLabel],
    [kind |-> "credential", type |-> "webhook", fn |-> "", config |-> "cfgA",
     label |-> NoLabel],
    [kind |-> "credential", type |-> "webhook", fn |-> "", config |-> "cfgB",
     label |-> "1"]>>
CounterBodies == {Body("webhook", "0", "x"), Body("webhook", "1", "y")}
\* The program and the requests of the timing specification.
TimingProgram == <<TriggerCall("webhook", "h10", "cfgA", NoLabel)>>
TimingBodies == {Body("webhook", "0", "x")}
\* The registration calls and the requests of the namespace specification:
\* one label for a trigger and a credential of one type and for a credential
\* of another type.
NamespaceCalls ==
  {[kind |-> "trigger", type |-> "webhook", fn |-> "h1", config |-> "cfgA", label |-> "a"],
   [kind |-> "credential", type |-> "webhook", fn |-> "", config |-> "cfgA", label |-> "a"],
   [kind |-> "credential", type |-> "cron", fn |-> "", config |-> "cfgB", label |-> "a"]}
NamespaceBodies == {Body("webhook", "a", "x"), Body("cron", "a", "y")}
Routes == {"getRegistrations", "getRegisteredTriggers"}

VARIABLES
  eventListenersByType,     \* Map<string, Map<string, RegisteredEvent>>
  accountInjectionsByType,  \* Map<string, Map<string, RegisteredAccountInjection>>
  nextAutomaticLabel,
  hasScheduledInit,
  hasInited,
  glueDeploymentId,
  glueAuthHeader,
  microtasks,               \* queued deferred initialisations
  serverStarts,             \* calls of Deno.serve
  inSync,                   \* a synchronous unit of user code is running
  requests,                 \* triggerEvent requests, by arrival order
  callCount,                \* how often each callback has been called
  lastRead,                 \* the latest response of an introspection route
  lastCall,                 \* the latest registration call and its outcome
  autoLabels,               \* labels issued from nextAutomaticLabel, in call order
  okCount,                  \* successful registration calls per namespace
  registered,               \* what the successful registration calls registered, in order
  firstRegUnit,             \* the unit of the first registration call:
                            \* "none" yet, "running" or "ended"
  now,                      \* Date.now()
  originalConsole,          \* the calls of the original console methods
  timingStarts,             \* the Map of console.time: label to start time
  objects,                  \* the Sets, Maps and plain objects user code created
  serialized,               \* the latest serialization of console arguments
  fetchers,                 \* the fetchers registerAccountInjection returned
  lastGet,                  \* the latest call of a fetcher and its outcome
  env,                      \* Deno.env
  listening,                \* the options Deno.serve was called with, and the
                            \* address the listener is bound to
  lifeline,                 \* the WebSocket of startLifeline
  exitCode                  \* the argument of Deno.exit, once called

vars == <<eventListenersByType, accountInjectionsByType, nextAutomaticLabel,
          hasScheduledInit, hasInited, glueDeploymentId, glueAuthHeader,
          microtasks, serverStarts, inSync, requests, callCount,
          lastRead, lastCall, autoLabels, okCount, registered, firstRegUnit,
          now, originalConsole, timingStarts, fetchers, lastGet,
          env, listening, lifeline, exitCode, objects, serialized>>

registryVars == <<eventListenersByType, accountInjectionsByType, nextAutomaticLabel>>
initVars == <<hasScheduledInit, hasInited, microtasks, serverStarts>>
headerVars == <<glueDeploymentId, glueAuthHeader>>
requestVars == <<requests, callCount, lastRead>>
callVars == <<lastCall, autoLabels, okCount, registered, firstRegUnit>>
logVars == <<now, originalConsole, timingStarts>>
fetchVars == <<fetchers, lastGet>>
userVars == <<objects, serialized>>
serveVars == <<env, listening, lifeline, exitCode, userVars>>

\* ------------------------------------------------------------ JS Map model
\* A Map is the sequence of its [key, value] entries in insertion order.
EmptyMap == <<>>
MapDelete(m, k) == SelectSeq(m, LAMBDA e : e.key # k)
MapHas(m, k) == \E i \in 1..Len(m) : m[i].key = k
MapIndex(m, k) == CHOOSE i \in 1..Len(m) : m[i].key = k
MapGet(m, k) == m[MapIndex(m, k)].value
MapSet(m, k, v) ==
  IF MapHas(m, k)
    THEN [m EXCEPT ![MapIndex(m, k)] = [key |-> k, value |-> v]]
    ELSE Append(m, [key |-> k, value |-> v])

\* (type, label) is a key of the registry byType
HasEntry(byType, type, label) ==
  \E i \in 1..Len(byType) :
     /\ byType[i].key = type
     /\ \E j \in 1..Len(byType[i].value) : byType[i].value[j].key = label

\* String(n) of a non-negative integer
Digit == <<"0", "1", "2", "3", "4", "5", "6", "7", "8", "9">>
RECURSIVE String(_)
String(n) == IF n < 10 THEN Digit[n + 1] ELSE String(n \div 10) \o Digit[(n % 10) + 1]

\* --------------------------------------------------------------- scheduleInit
\* Returns what scheduleInit does to the init flags and the microtask queue,
\* and whether it throws.
scheduleInitNoGuard ==
  IF hasInited
    THEN [threw |-> TRUE, hasScheduledInit |-> hasScheduledInit, microtasks |-> microtasks]
    ELSE [threw |-> FALSE, hasScheduledInit |-> TRUE, microtasks |-> microtasks + 1]

scheduleInitNoQueue ==
  IF hasInited
    THEN [threw |-> TRUE, hasScheduledInit |-> hasScheduledInit, microtasks |-> microtasks]
    ELSE [threw |-> FALSE, hasScheduledInit |-> TRUE, microtasks |-> microtasks]

scheduleInitNoThrow ==
  IF hasInited \/ hasScheduledInit
    THEN [threw |-> FALSE, hasScheduledInit |-> hasScheduledInit, microtasks |-> microtasks]
    ELSE [threw |-> FALSE, hasScheduledInit |-> TRUE, microtasks |-> microtasks + 1]

\* ... with the two checks in the other order
scheduleInitChecksSwapped ==
  IF hasScheduledInit
    THEN [threw |-> FALSE, hasScheduledInit |-> hasScheduledInit, microtasks |-> microtasks]
    ELSE IF hasInited
      THEN [threw |-> TRUE, hasScheduledInit |-> hasScheduledInit, microtasks |-> microtasks]
      ELSE [threw |-> FALSE, hasScheduledInit |-> TRUE, microtasks |-> microtasks + 1]

scheduleInit ==
  IF hasInited
    THEN [threw |-> TRUE, hasScheduledInit |-> hasScheduledInit, microtasks |-> microtasks]
    ELSE IF hasScheduledInit
      THEN [threw |-> FALSE, hasScheduledInit |-> hasScheduledInit, microtasks |-> microtasks]
      ELSE [threw |-> FALSE, hasScheduledInit |-> TRUE, microtasks |-> microtasks + 1]

\* options?.label ?? String(nextAutomaticLabel++)
resolveLabelNoIncrement(label) ==
  IF label # NoLabel
    THEN [label |-> label, next |-> nextAutomaticLabel, auto |-> FALSE]
    ELSE [label |-> String(nextAutomaticLabel), next |-> nextAutomaticLabel, auto |-> TRUE]

resolveLabel(label) ==
  IF label # NoLabel
    THEN [label |-> label, next |-> nextAutomaticLabel, auto |-> FALSE]
    ELSE [label |-> String(nextAutomaticLabel), next |-> nextAutomaticLabel + 1, auto |-> TRUE]

\* The body of registerEventListener after scheduleInit() returned.
registerEventListenerNoCheck(eventName, callback, config, label) ==
  LET created == IF MapHas(eventListenersByType, eventName)
                   THEN eventListenersByType
                   ELSE MapSet(eventListenersByType, eventName, EmptyMap)
      specificEventListeners == MapGet(created, eventName)
      r == resolveLabel(label)
  IN [threw |-> FALSE, label |-> r.label, auto |-> r.auto, next |-> r.next,
      map |-> MapSet(created, eventName,
                     MapSet(specificEventListeners, r.label,
                            [fn |-> callback, config |-> config]))]

\* ... that advances the counter only when the label is free
registerEventListenerIncrementLate(eventName, callback, config, label) ==
  LET created == IF MapHas(eventListenersByType, eventName)
                   THEN eventListenersByType
                   ELSE MapSet(eventListenersByType, eventName, EmptyMap)
      specificEventListeners == MapGet(created, eventName)
      r == resolveLabel(label)
  IN IF MapHas(specificEventListeners, r.label)
       THEN [threw |-> TRUE, label |-> r.label, auto |-> r.auto,
             next |-> nextAutomaticLabel, map |-> created]
       ELSE [threw |-> FALSE, label |-> r.label, auto |-> r.auto, next |-> r.next,
             map |-> MapSet(created, eventName,
                            MapSet(specificEventListeners, r.label,
                                   [fn |-> callback, config |-> config]))]

\* ... that stores the entry before it checks the label
registerEventListenerSetFirst(eventName, callback, config, label) ==
  LET created == IF MapHas(eventListenersByType, eventName)
                   THEN eventListenersByType
                   ELSE MapSet(eventListenersByType, eventName, EmptyMap)
      specificEventListeners == MapGet(created, eventName)
      r == resolveLabel(label)
  IN [threw |-> MapHas(specificEventListeners, r.label),
      label |-> r.label, auto |-> r.auto, next |-> r.next,
      map |-> MapSet(created, eventName,
                     MapSet(specificEventListeners, r.label,
                            [fn |-> callback, config |-> config]))]

registerEventListener(eventName, callback, config, label) ==
  LET created == IF MapHas(eventListenersByType, eventName)
                   THEN eventListenersByType
                   ELSE MapSet(eventListenersByType, eventName, EmptyMap)
      specificEventListeners == MapGet(created, eventName)
      r == resolveLabel(label)
  IN IF MapHas(specificEventListeners, r.label)
       THEN [threw |-> TRUE, label |-> r.label, auto |-> r.auto, next |-> r.next,
             map |-> created]
       ELSE [threw |-> FALSE, label |-> r.label, auto |-> r.auto, next |-> r.next,
             map |-> MapSet(created, eventName,
                            MapSet(specificEventListeners, r.label,
                                   [fn |-> callback, config |-> config]))]

\* ... whose fetcher closes over options?.label instead of resolvedLabel
registerAccountInjectionUnresolved(type, config, label) ==
  LET created == IF MapHas(accountInjectionsByType, type)
                   THEN accountInjectionsByType
                   ELSE MapSet(accountInjectionsByType, type, EmptyMap)
      typeAccountInjections == MapGet(created, type)
      r == resolveLabel(label)
  IN IF MapHas(typeAccountInjections, r.label)
       THEN [threw |-> TRUE, label |-> r.label, auto |-> r.auto, next |-> r.next,
             map |-> created, fetcher |-> [type |-> type, label |-> label]]
       ELSE [threw |-> FALSE, label |-> r.label, auto |-> r.auto, next |-> r.next,
             map |-> MapSet(created, type,
                            MapSet(typeAccountInjections, r.label, [config |-> config])),
             fetcher |-> [type |-> type, label |-> label]]

\* ... refusing a label that a trigger of the type has
registerAccountInjectionOneNamespace(type, config, label) ==
  LET created == IF MapHas(accountInjectionsByType, type)
                   THEN accountInjectionsByType
                   ELSE MapSet(accountInjectionsByType, type, EmptyMap)
      typeAccountInjections == MapGet(created, type)
      r == resolveLabel(label)
  IN IF MapHas(typeAccountInjections, r.label)
        \/ HasEntry(eventListenersByType, type, r.label)
       THEN [threw |-> TRUE, label |-> r.label, auto |-> r.auto, next |-> r.next,
             map |-> created, fetcher |-> [type |-> type, label |-> r.label]]
       ELSE [threw |-> FALSE, label |-> r.label, auto |-> r.auto, next |-> r.next,
             map |-> MapSet(created, type,
                            MapSet(typeAccountInjections, r.label, [config |-> config])),
             fetcher |-> [type |-> type, label |-> r.label]]

\* The body of registerAccountInjection after scheduleInit() returned.
registerAccountInjection(type, config, label) ==
  LET created == IF MapHas(accountInjectionsByType, type)
                   THEN accountInjectionsByType
                   ELSE MapSet(accountInjectionsByType, type, EmptyMap)
      typeAccountInjections == MapGet(created, type)
      r == resolveLabel(label)
  IN IF MapHas(typeAccountInjections, r.label)
       THEN [threw |-> TRUE, label |-> r.label, auto |-> r.auto, next |-> r.next,
             map |-> created, fetcher |-> [type |-> type, label |-> r.label]]
       ELSE [threw |-> FALSE, label |-> r.label, auto |-> r.auto, next |-> r.next,
             map |-> MapSet(created, type,
                            MapSet(typeAccountInjections, r.label, [config |-> config])),
             fetcher |-> [type |-> type, label |-> r.label]]

\* ------------------------------------------------------------ serialization
\* A text is the sequence of its pieces; NL is the line terminator "\n".
NL == "\n"
Undefined == "<undefined>"

Str(v) == [t |-> "string", v |-> v]
Num(n) == [t |-> "number", v |-> n]
Null == [t |-> "null", v |-> "null"]
Undef == [t |-> "undefined", v |-> "undefined"]
\* A string built by a template literal, as its pieces
Template(pieces) == [t |-> "template", v |-> pieces]
\* new Error(message): stack is "Error: <message>" followed by the trace lines
Err(message) == [t |-> "error", v |-> <<"Error: ">> \o message \o <<NL, "    at <anonymous>">>]

RECURSIVE JoinFrom(_, _, _)
JoinFrom(parts, i, sep) ==
  IF i > Len(parts) THEN <<>>
  ELSE IF i = Len(parts) THEN parts[i]
  ELSE parts[i] \o <<sep>> \o JoinFrom(parts, i + 1, sep)

\* A bigint
BigInt(n) == [t |-> "bigint", v |-> n]
\* A reference to the object objects[id]: a Set, a Map or a plain object,
\* {kind, entries}, its entries the [key, value] pairs in insertion order (the
\* entries of a Set are the pairs [x, x], as Set.prototype.entries has them).
Ref(id) == [t |-> "reference", v |-> id]
Container(kind) == [kind |-> kind, entries |-> <<>>]

\* Array.prototype.includes
includes(array, x) == \E i \in 1..Len(array) : array[i] = x

\* JSON.stringify: [threw, text].  It throws a TypeError for a bigint and
\* for an object that is among its own ancestors; a Set or a Map has no
\* enumerable property of its own and is encoded as {}.
RECURSIVE JSONstringify(_, _)
JSONstringify(value, path) ==
  CASE value.t = "number" -> [threw |-> FALSE, text |-> <<String(value.v)>>]
    [] value.t = "string" -> [threw |-> FALSE, text |-> <<"\"", value.v, "\"">>]
    [] value.t = "bigint" -> [threw |-> TRUE, text |-> <<>>]
    [] value.t = "reference" ->
         IF objects[value.v].kind # "Object" THEN [threw |-> FALSE, text |-> <<"{}">>]
         ELSE IF includes(path, value.v) THEN [threw |-> TRUE, text |-> <<>>]
         ELSE LET entries == objects[value.v].entries
                  members == [i \in 1..Len(entries) |->
                                JSONstringify(entries[i].value, Append(path, value.v))]
                  properties == [i \in 1..Len(entries) |->
                                   <<"\"", entries[i].key.v, "\":">> \o members[i].text]
              IN [threw |-> \E i \in 1..Len(entries) : members[i].threw,
                  text |-> <<"{">> \o JoinFrom(properties, 1, ",") \o <<"}">>]

Larger(a, b) == IF a < b THEN b ELSE a

\* serializeValue of a value that is not an object: the cases that return
\* before the stack is looked at, and JSON.stringify of a string
serializePrimitive(value) ==
  CASE value.t \in {"null", "undefined"} -> <<value.v>>
    [] value.t = "number" -> <<String(value.v)>>
    [] value.t = "bigint" -> <<String(value.v), "n">>
    [] value.t = "error" -> value.v
    [] value.t = "string" -> <<"\"", value.v, "\"">>
    [] value.t = "template" -> <<"\"">> \o value.v \o <<"\"">>

\* ... that lets the failure through
serializeValueCatchRethrow(tried) == tried

\* ... with a stack that is never popped
serializeValueFinallyKeep(stack) == stack

\* The catch clause of serializeValue
serializeValueCatch(tried) ==
  IF tried.threw
    THEN [tried EXCEPT !.threw = FALSE, !.text = <<"[Unserializable value]">>]
    ELSE tried

\* The finally clause of serializeValue: stack.pop()
serializeValueFinally(stack) == SubSeq(stack, 1, Len(stack) - 1)

\* serializeFrom(value, 0, stack) is the call serializeValue(value, stack):
\* [threw, text, stack, balanced, depth], stack the array after the call,
\* balanced that every call left the stack as it found it, depth the longest
\* the stack has been.  serializeFrom(value, i, stack) for i > 0 is
\* Array.from(value).map(...) of the Set or Map value from entry i on,
\* serializeValue(x, stack) for a Set and
\* `${serializeValue(k, stack)} => ${serializeValue(v, stack)}` for a Map:
\* [threw, parts, stack, balanced, depth]; a call that throws ends it.
RECURSIVE serializeFrom(_, _, _)
serializeFrom(value, i, stack) ==
  IF i = 0 THEN
    IF value.t # "reference"
      THEN [threw |-> FALSE, text |-> serializePrimitive(value), stack |-> stack,
            balanced |-> TRUE, depth |-> Len(stack)]
    ELSE IF includes(stack, value.v)
      THEN [threw |-> FALSE, text |-> <<"[Circular reference]">>, stack |-> stack,
            balanced |-> TRUE, depth |-> Len(stack)]
    ELSE
      LET pushed == Append(stack, value.v)
          o == objects[value.v]
          size == String(Len(o.entries))
          each == serializeFrom(value, 1, pushed)
          tried ==
            IF o.kind \in {"Set", "Map"}
              THEN [threw |-> each.threw,
                    text |-> <<o.kind, "(", size, ") { ">> \o JoinFrom(each.parts, 1, ", ")
                             \o <<" }">>,
                    stack |-> each.stack, balanced |-> each.balanced,
                    depth |-> Larger(Len(pushed), each.depth)]
              ELSE LET json == JSONstringify(value, <<>>)
                   IN [threw |-> json.threw, text |-> json.text, stack |-> pushed,
                       balanced |-> TRUE, depth |-> Len(pushed)]
          caught == serializeValueCatch(tried)
          after == serializeValueFinally(caught.stack)
      IN [caught EXCEPT !.stack = after, !.balanced = @ /\ after = stack]
  ELSE
    LET entries == objects[value.v].entries IN
    IF i > Len(entries)
      THEN [threw |-> FALSE, parts |-> <<>>, stack |-> stack, balanced |-> TRUE,
            depth |-> Len(stack)]
    ELSE
      LET key == IF objects[value.v].kind = "Map"
                   THEN serializeFrom(entries[i].key, 0, stack)
                   ELSE [threw |-> FALSE, text |-> <<>>, stack |-> stack,
                         balanced |-> TRUE, depth |-> Len(stack)]
          val == IF key.threw THEN key ELSE serializeFrom(entries[i].value, 0, key.stack)
          part == IF objects[value.v].kind = "Map"
                    THEN key.text \o <<" => ">> \o val.text ELSE val.text
          rest == IF val.threw
                    THEN [threw |-> TRUE, parts |-> <<>>, stack |-> val.stack,
                          balanced |-> TRUE, depth |-> Len(val.stack)]
                    ELSE serializeFrom(value, i + 1, val.stack)
      IN [threw |-> rest.threw, parts |-> <<part>> \o rest.parts, stack |-> rest.stack,
          balanced |-> key.balanced /\ val.balanced /\ rest.balanced,
          depth |-> Larger(Larger(key.depth, val.depth), rest.depth)]

\* serializeValue(value, stack)
serializeValueStack(value, stack) == serializeFrom(value, 0, stack)

\* serializeValue(value), called without a stack: the stack starts empty
serializeValue(value) ==
  IF value.t = "reference"
    THEN serializeValueStack(value, <<>>).text ELSE serializePrimitive(value)

serializeValueAllowPlainStrings(value) ==
  IF value.t = "string" THEN <<value.v>>
  ELSE IF value.t = "template" THEN value.v
  ELSE serializeValue(value)

serializeConsoleArgumentsToString(args) ==
  JoinFrom([i \in 1..Len(args) |-> serializeValueAllowPlainStrings(args[i])], 1, " ") \o <<NL>>

\* What one call of serializeConsoleArgumentsToString(args) did: the text it
\* returned unless a call of serializeValue threw, and what the calls of
\* serializeValue did to their stacks.
NoSerialized ==
  [args |-> <<>>, values |-> <<>>, text |-> <<>>, threw |-> FALSE, balanced |-> TRUE,
   depth |-> 0]
serializeOutcome(args) ==
  LET each == [i \in 1..Len(args) |-> serializeValueStack(args[i], <<>>)]
      threw == \E i \in 1..Len(args) : args[i].t = "reference" /\ each[i].threw
  IN [args |-> args,
      values |-> [i \in 1..Len(args) |->
                    IF args[i].t = "reference" THEN each[i].text
                    ELSE serializeValueAllowPlainStrings(args[i])],
      text |-> IF threw THEN <<>> ELSE serializeConsoleArgumentsToString(args),
      threw |-> threw,
      balanced |-> \A i \in 1..Len(args) : each[i].balanced /\ each[i].stack = <<>>,
      depth |-> IF args = <<>> THEN 0
                ELSE CHOOSE d \in {each[i].depth : i \in 1..Len(args)} :
                       \A i \in 1..Len(args) : each[i].depth <= d]

\* ------------------------------------------------------------------ logging
\* A Log is {timestamp, type, text}.  src is not a field of Log: it stands for
\* the identity of the entry object, the emission that created it (the async
\* context that made the call, the ordinal of the call in that context, the
\* method and the arguments).
NoContext == 0
Emission(by, k, methodName, args) ==
  [by |-> by, k |-> k, method |-> methodName, args |-> args]

\* The state user code acts on: the requests (with their LogContexts), the
\* original console, the record of the fetcher calls, the registries and
\* what scheduleInit writes.
Current ==
  [reqs |-> requests, console |-> originalConsole, lastGet |-> lastGet,
   listeners |-> eventListenersByType, injections |-> accountInjectionsByType,
   next |-> nextAutomaticLabel, scheduled |-> hasScheduledInit, microtasks |-> microtasks,
   timers |-> timingStarts]

\* originalMethod.apply(console, args) / originalConsoleMethods.x.apply(console, args)
originalMethod(methodName, args, console) ==
  [console EXCEPT !.n = @ + 1, !.method = methodName, !.args = args]

\* asyncLocalStorage.getStore() in the async context asyncContext: the
\* LogContext that asyncLocalStorage.run bound for it (the LogContext of
\* request asyncContext), none outside every run.
getStoreLatest(asyncContext, reqs) ==
  LET active == {j \in 1..Len(reqs) : reqs[j].ctx}
  IN IF active = {} THEN NoContext ELSE CHOOSE j \in active : \A k \in active : k <= j

getStore(asyncContext, reqs) == asyncContext

\* ... with logs.unshift(...) instead of logs.push(...)
patchedConsoleUnshift(methodName, args, asyncContext, st) ==
  LET store == getStore(asyncContext, st.reqs)
      k == IF asyncContext = NoContext
             THEN st.console.outside + 1 ELSE st.reqs[asyncContext].emits + 1
      entry == [timestamp |-> now,
                type |-> IF methodName = "error" THEN "stderr" ELSE "stdout",
                text |-> serializeConsoleArgumentsToString(args) \o <<NL>>,
                src |-> Emission(asyncContext, k, methodName, args)]
      counted == IF asyncContext = NoContext
                   THEN [st EXCEPT !.console.outside = k]
                   ELSE [st EXCEPT !.reqs[asyncContext].emits = k]
      pushed == IF store # NoContext /\ counted.reqs[store].ctx
                  THEN [counted EXCEPT !.reqs[store].logs = <<entry>> \o @]
                  ELSE counted
  IN [pushed EXCEPT !.console = originalMethod(methodName, args, pushed.console)]

\* ... that tags console.warn as stderr too
patchedConsoleWarnIsStderr(methodName, args, asyncContext, st) ==
  LET store == getStore(asyncContext, st.reqs)
      k == IF asyncContext = NoContext
             THEN st.console.outside + 1 ELSE st.reqs[asyncContext].emits + 1
      entry == [timestamp |-> now,
                type |-> IF methodName \in {"error", "warn"} THEN "stderr" ELSE "stdout",
                text |-> serializeConsoleArgumentsToString(args) \o <<NL>>,
                src |-> Emission(asyncContext, k, methodName, args)]
      counted == IF asyncContext = NoContext
                   THEN [st EXCEPT !.console.outside = k]
                   ELSE [st EXCEPT !.reqs[asyncContext].emits = k]
      pushed == IF store # NoContext /\ counted.reqs[store].ctx
                  THEN [counted EXCEPT !.reqs[store].logs = Append(@, entry)]
                  ELSE counted
  IN [pushed EXCEPT !.console = originalMethod(methodName, args, pushed.console)]

\* ... returning early once the entry is captured
patchedConsoleSwallow(methodName, args, asyncContext, st) ==
  LET store == getStore(asyncContext, st.reqs)
      k == IF asyncContext = NoContext
             THEN st.console.outside + 1 ELSE st.reqs[asyncContext].emits + 1
      entry == [timestamp |-> now,
                type |-> IF methodName = "error" THEN "stderr" ELSE "stdout",
                text |-> serializeConsoleArgumentsToString(args) \o <<NL>>,
                src |-> Emission(asyncContext, k, methodName, args)]
      counted == IF asyncContext = NoContext
                   THEN [st EXCEPT !.console.outside = k]
                   ELSE [st EXCEPT !.reqs[asyncContext].emits = k]
  IN IF store # NoContext /\ counted.reqs[store].ctx
       THEN [counted EXCEPT !.reqs[store].logs = Append(@, entry)]
       ELSE [counted EXCEPT !.console = originalMethod(methodName, args, counted.console)]

\* The patched console[methodName](...args) called in async context
\* asyncContext.
patchedConsole(methodName, args, asyncContext, st) ==
  LET store == getStore(asyncContext, st.reqs)
      k == IF asyncContext = NoContext
             THEN st.console.outside + 1 ELSE st.reqs[asyncContext].emits + 1
      entry == [timestamp |-> now,
                type |-> IF methodName = "error" THEN "stderr" ELSE "stdout",
                text |-> serializeConsoleArgumentsToString(args) \o <<NL>>,
                src |-> Emission(asyncContext, k, methodName, args)]
      counted == IF asyncContext = NoContext
                   THEN [st EXCEPT !.console.outside = k]
                   ELSE [st EXCEPT !.reqs[asyncContext].emits = k]
      pushed == IF store # NoContext /\ counted.reqs[store].ctx
                  THEN [counted EXCEPT !.reqs[store].logs = Append(@, entry)]
                  ELSE counted
  IN [pushed EXCEPT !.console = originalMethod(methodName, args, pushed.console)]

\* console.time(label): timingStarts.set(label, Date.now())
consoleTime(label, st) == [st EXCEPT !.timers = MapSet(@, label, now)]

\* console.timeEnd(label): console.warn when the timer does not exist, else
\* the timer is deleted and console.log(`${label}: ${duration}ms`) is called.
consoleTimeEnd(label, asyncContext, st) ==
  IF ~MapHas(st.timers, label)
    THEN patchedConsole("warn", <<Template(<<"Timer '", label, "' does not exist">>)>>,
                        asyncContext, st)
    ELSE LET duration == now - MapGet(st.timers, label)
         IN patchedConsole("log", <<Template(<<label, ": ", String(duration), "ms">>)>>,
                           asyncContext, [st EXCEPT !.timers = MapDelete(@, label)])

\* The entry logger.log / logger.error of runInLoggingContext pushes.
loggerEntry(type, args) ==
  [timestamp |-> now, type |-> type,
   text |-> serializeConsoleArgumentsToString(args) \o <<NL>>,
   src |-> Emission(NoContext, 0, "logger", args)]

\* logger.error of runInLoggingContext, while logContext.logs is set
loggerErrorPrepend(args, logs) == <<loggerEntry("stderr", args)>> \o logs

loggerError(args, logs) == Append(logs, loggerEntry("stderr", args))

loggerLog(args, logs) == Append(logs, loggerEntry("stdout", args))

\* logger[methodName](...args) of the runInLoggingContext call of request
\* context: the original console method, then logContext.logs?.push(...).
logger(methodName, args, context, st) ==
  LET written == [st EXCEPT !.console = originalMethod(methodName, args, st.console),
                            !.reqs[context].emits = @ + 1]
      pushed == IF methodName = "error"
                  THEN loggerError(args, st.reqs[context].logs)
                  ELSE loggerLog(args, st.reqs[context].logs)
  IN IF written.reqs[context].ctx
       THEN [written EXCEPT !.reqs[context].logs =
               [pushed EXCEPT ![Len(pushed)].src =
                  Emission(context, written.reqs[context].emits, "logger", args)]]
       ELSE written

\* const logs = []; const logContext = {logs}
runInLoggingContextEnter(r) == [r EXCEPT !.logs = <<>>, !.ctx = TRUE]

\* The catch / finally / return of runInLoggingContext when fn rejected with e.
runInLoggingContextCatchNoLog(e, logs) ==
  [logs |-> logs, error |-> serializeConsoleArgumentsToString(<<e>>)]

\* ... whose catch records the error a second time
runInLoggingContextCatchTwice(e, logs) ==
  [logs |-> loggerError(<<e>>, loggerError(<<e>>, logs)),
   error |-> serializeConsoleArgumentsToString(<<e>>)]

runInLoggingContextCatch(e, logs) ==
  [logs |-> loggerError(<<e>>, logs), error |-> serializeConsoleArgumentsToString(<<e>>)]

\* ... and when fn resolved.
runInLoggingContextReturn(logs) == [logs |-> logs, error |-> Undefined]

\* -------------------------------------------------------- credential fetchers
\* !value of a header value
Falsy(value) == value \in {Undefined, ""}

NoFetch == [dep |-> Undefined, type |-> Undefined, label |-> Undefined, auth |-> Undefined]
NotYetReadyError ==
  Err(<<"Credential fetcher must not be used before any trigger events have been received.">>)

\* ... without the check of the captured headers
fetcherGetNoCheck(fetcher) ==
  [threw |-> FALSE,
   request |-> [dep |-> glueDeploymentId, type |-> fetcher.type,
                label |-> fetcher.label, auth |-> glueAuthHeader]]

\* ... with a check for undefined only
fetcherGetUndefinedOnly(fetcher) ==
  IF glueDeploymentId = Undefined \/ glueAuthHeader = Undefined
    THEN [threw |-> TRUE, request |-> NoFetch]
    ELSE [threw |-> FALSE,
          request |-> [dep |-> glueDeploymentId, type |-> fetcher.type,
                       label |-> fetcher.label, auth |-> glueAuthHeader]]

\* The fetcher returned by registerAccountInjection, up to its await fetch(...):
\* whether it throws, and the outbound request it makes.
fetcherGet(fetcher) ==
  IF Falsy(glueDeploymentId) \/ Falsy(glueAuthHeader)
    THEN [threw |-> TRUE, request |-> NoFetch]
    ELSE [threw |-> FALSE,
          request |-> [dep |-> glueDeploymentId, type |-> fetcher.type,
                       label |-> fetcher.label, auth |-> glueAuthHeader]]

\* The responses of the credential authority: status, statusText and a body
\* that is the JSON text of a value, or no JSON text.
Json(value) == [t |-> "json", v |-> value]
NotJson == [t |-> "text", v |-> Undef]
Response(status, statusText, body) ==
  [ok |-> status \in 200..299, status |-> status, statusText |-> statusText, body |-> body]
ApiKeyCredential(apiKey) == [t |-> "object", v |-> <<"apiKey", apiKey>>]
OkResponse == Response(200, "OK", Json(ApiKeyCredential("k1")))
Responses ==
  {OkResponse,
   Response(404, "Not Found", Json([t |-> "object", v |-> <<"message", "no such account">>])),
   Response(200, "OK", NotJson)}
CredentialResponses == {OkResponse}

\* res.json()
JsonSyntaxError == Err(<<"SyntaxError: Unexpected token">>)
resJson(res) ==
  IF res.body.t = "json"
    THEN [threw |-> FALSE, value |-> res.body.v]
    ELSE [threw |-> TRUE, value |-> JsonSyntaxError]

CredentialFetchError(res) ==
  Err(<<"Failed to fetch account injection: ", String(res.status), " ", res.statusText>>)

\* ... without the check of res.ok
fetcherAfterFetchNoStatusCheck(res) == resJson(res)

\* The fetcher from "await fetch(...)" on, given the response: what get()
\* rejects with or resolves to.
fetcherAfterFetch(res) ==
  IF ~res.ok
    THEN [threw |-> TRUE, value |-> CredentialFetchError(res)]
    ELSE resJson(res)

\* What a call of fetcher number k made in async context by records.
RecordGet(by, k, g, st) ==
  [n |-> st.lastGet.n + 1, sent |-> st.lastGet.sent + (IF g.threw THEN 0 ELSE 1),
   by |-> by, fetcher |-> k,
   outcome |-> IF g.threw THEN "NotYetReady" ELSE "fetched",
   request |-> g.request,
   received |-> Len(st.reqs),
   running |-> {j \in 1..Len(st.reqs) : st.reqs[j].ctx},
   idle |-> \A j \in 1..Len(st.reqs) : st.reqs[j].pc = "done"]

\* ----------------------------------------------------------------- handlers
\* The callbacks of the user program, as the steps they take.  Spawn starts
\* work that the callback does not await; Get is "await fetcher.get()" on the
\* k-th fetcher the program obtained; Register is a registration call made by
\* the callback.  TryGet and TryRegister are the same inside a try whose
\* catch goes on with the next step.  A Logger step stands for a fn of
\* runInLoggingContext that uses the logger handle it is given.
Console(methodName, args) == [op |-> "console", method |-> methodName, args |-> args]
Logger(methodName, args) == [op |-> "logger", method |-> methodName, args |-> args]
Await == [op |-> "await"]
Throw(e) == [op |-> "throw", value |-> e]
Spawn(work) == [op |-> "spawn", work |-> work]
Get(k) == [op |-> "get", fetcher |-> k]
Time(label) == [op |-> "time", label |-> label]
TimeEnd(label) == [op |-> "timeEnd", label |-> label]
TryGet(k) == [op |-> "tryget", fetcher |-> k]
Register(kind, call) == [op |-> "register", kind |-> kind, call |-> call]
TryRegister(kind, call) == [op |-> "tryregister", kind |-> kind, call |-> call]

Handlers == {"h1", "h2", "h3", "h4", "h5", "h6", "h7", "h8", "h9", "h10"}
Script(fn) ==
  CASE fn = "h1" -> <<Console("log", <<Str("webhook callback")>>)>>
    [] fn = "h2" -> <<Console("log", <<Str("start"), Num(1)>>), Await,
                      Console("error", <<Str("failing")>>), Throw(Err(<<"boom">>))>>
    [] fn = "h3" -> <<Throw(Err(<<"sync">>))>>
    [] fn = "h4" -> <<Console("info", <<Str("a"), Null>>),
                      Spawn(<<Console("log", <<Str("late")>>),
                              Logger("error", <<Str("later")>>)>>),
                      Await, Console("error", <<Str("b")>>)>>
    [] fn = "h5" -> <<Get(1), Console("log", <<Str("fetched")>>), Get(2)>>
    [] fn = "h6" -> <<TryGet(1), Console("log", <<Str("going on")>>)>>
    [] fn = "h7" -> <<Get(1), Console("log", <<Str("have credential")>>)>>
    [] fn = "h8" -> <<Console("log", <<Str("registering")>>),
                      Register("trigger", TriggerCall("cron", "h1", "cfgB", NoLabel)),
                      Console("log", <<Str("registered")>>)>>
    [] fn = "h9" -> <<TryRegister("credential", CredentialCall("webhook", "cfgA", "late")),
                      Console("log", <<Str("going on")>>),
                      Await,
                      Register("trigger", TriggerCall("webhook", "h1", "cfgA", "late"))>>
    [] fn = "h10" -> <<Time("t"), Console("warn", <<Str("w")>>),
                       Console("debug", <<Str("d")>>), Console("table", <<Num(1)>>),
                       Await,
                       TimeEnd("t"), Console("info", <<Str("i")>>),
                       Console("error", <<Str("e")>>), TimeEnd("t"),
                       Console("log", <<Str("l")>>)>>

FetcherMissing == Err(<<"TypeError: Cannot read properties of undefined (reading 'get')">>)

AlreadyInitializedError ==
  Err(<<"Attempted to register a trigger after initialization. All triggers must be registered at the top level.">>)
DuplicateLabelError(kind, label) ==
  Err(<<IF kind = "trigger" THEN "Event listener with label "
                            ELSE "Account injection with label ",
        "\"", label, "\"", " already registered">>)

\* ... without the call of scheduleInit()
registerInHandlerUngated(kind, c, st) ==
  LET res == IF kind = "trigger"
               THEN registerEventListener(c.type, c.fn, c.config, c.label)
               ELSE registerAccountInjection(c.type, c.config, c.label)
  IN [threw |-> res.threw, outcome |-> IF res.threw THEN "DuplicateLabel" ELSE "ok",
      value |-> DuplicateLabelError(kind, res.label),
      st |-> IF kind = "trigger"
               THEN [st EXCEPT !.listeners = res.map, !.next = res.next]
               ELSE [st EXCEPT !.injections = res.map, !.next = res.next]]

\* A registration call made by user code that runs in st: whether it throws,
\* what, and what it has written.
registerInHandler(kind, c, st) ==
  LET s == scheduleInit
      res == IF kind = "trigger"
               THEN registerEventListener(c.type, c.fn, c.config, c.label)
               ELSE registerAccountInjection(c.type, c.config, c.label)
      gated == [st EXCEPT !.scheduled = s.hasScheduledInit, !.microtasks = s.microtasks]
  IN IF s.threw
       THEN [threw |-> TRUE, outcome |-> "AlreadyInitialized",
             value |-> AlreadyInitializedError, st |-> st]
       ELSE [threw |-> res.threw, outcome |-> IF res.threw THEN "DuplicateLabel" ELSE "ok",
             value |-> DuplicateLabelError(kind, res.label),
             st |-> IF kind = "trigger"
                      THEN [gated EXCEPT !.listeners = res.map, !.next = res.next]
                      ELSE [gated EXCEPT !.injections = res.map, !.next = res.next]]

\* Runs the callback of request i from step ip until it suspends, returns or
\* throws.
RECURSIVE RunSegment(_, _, _)
RunSegment(i, ip, st) ==
  LET fn == st.reqs[i].fn IN
  IF ip > Len(Script(fn)) THEN [state |-> "returned", ip |-> ip, st |-> st, value |-> Undef]
  ELSE LET step == Script(fn)[ip] IN
    CASE step.op = "console" ->
           RunSegment(i, ip + 1, patchedConsole(step.method, step.args, i, st))
      [] step.op = "logger" ->
           RunSegment(i, ip + 1, logger(step.method, step.args, i, st))
      [] step.op = "spawn" ->
           RunSegment(i, ip + 1, [st EXCEPT !.reqs[i].stray = @ \o step.work])
      [] step.op = "time" -> RunSegment(i, ip + 1, consoleTime(step.label, st))
      [] step.op = "timeEnd" -> RunSegment(i, ip + 1, consoleTimeEnd(step.label, i, st))
      [] step.op = "await" -> [state |-> "suspended", ip |-> ip + 1, st |-> st, value |-> Undef]
      [] step.op = "throw" -> [state |-> "threw", ip |-> ip, st |-> st, value |-> step.value]
      [] step.op \in {"register", "tryregister"} ->
           LET r == registerInHandler(step.kind, step.call, st)
               noted == [r.st EXCEPT !.reqs[i].regs = Append(@, r.outcome)]
           IN IF ~r.threw
                THEN RunSegment(i, ip + 1, noted)
                ELSE IF step.op = "tryregister"
                  THEN RunSegment(i, ip + 1,
                                  [noted EXCEPT !.reqs[i].caught = Append(@, r.value)])
                  ELSE [state |-> "threw", ip |-> ip, st |-> noted, value |-> r.value]
      [] step.op \in {"get", "tryget"} ->
           IF step.fetcher > Len(fetchers)
             THEN [state |-> "threw", ip |-> ip, st |-> st, value |-> FetcherMissing]
             ELSE LET g == fetcherGet(fetchers[step.fetcher])
                      called == [st EXCEPT !.lastGet = RecordGet(i, step.fetcher, g, st)]
                  IN IF ~g.threw
                       THEN [state |-> "suspended", ip |-> ip + 1,
                             st |-> [called EXCEPT !.reqs[i].fetches = Append(@, g.request),
                                                   !.reqs[i].awaiting = "fetch"],
                             value |-> Undef]
                       ELSE IF step.op = "tryget"
                         THEN RunSegment(i, ip + 1,
                                [called EXCEPT !.reqs[i].caught = Append(@, NotYetReadyError)])
                         ELSE [state |-> "threw", ip |-> ip, st |-> called,
                               value |-> NotYetReadyError]

\* TriggerEvent.parse(await c.req.json()): throws unless the body is a JSON
\* object (ok) with a string type and a string label.
TriggerEventParseLenient(body) == [threw |-> FALSE]

TriggerEventParse(body) ==
  [threw |-> ~body.ok \/ body.type = Undefined \/ body.label = Undefined]

\* handleTrigger's lookup: the listener registered for (type, label), if any.
NoListener == [fn |-> "<none>", config |-> Undefined]

lookupListenerByLabel(type, label) ==
  LET found == {i \in 1..Len(eventListenersByType) :
                  MapHas(eventListenersByType[i].value, label)}
  IN IF found = {} THEN NoListener
     ELSE MapGet(eventListenersByType[CHOOSE i \in found : \A j \in found : i <= j].value, label)

lookupListener(type, label) ==
  IF ~MapHas(eventListenersByType, type) THEN NoListener
  ELSE LET specificEventListeners == MapGet(eventListenersByType, type) IN
    IF MapHas(specificEventListeners, label)
      THEN MapGet(specificEventListeners, label) ELSE NoListener

UnknownTriggerError(type, label) == Err(<<"Unknown trigger: ", type, " ", label>>)

\* getRegistrations: the entries of a registry as {type, label, config}, in
\* enumeration order.
RECURSIVE ListEntries(_, _)
ListEntries(byType, i) ==
  IF i > Len(byType) THEN <<>>
  ELSE [j \in 1..Len(byType[i].value) |->
          [type |-> byType[i].key, label |-> byType[i].value[j].key,
           config |-> byType[i].value[j].value.config]]
       \o ListEntries(byType, i + 1)

\* ... listing eventListenersByType under both keys
getRegistrationsSameMap ==
  [triggers |-> ListEntries(eventListenersByType, 1),
   accountInjections |-> ListEntries(eventListenersByType, 1)]

getRegistrations ==
  [triggers |-> ListEntries(eventListenersByType, 1),
   accountInjections |-> ListEntries(accountInjectionsByType, 1)]

\* ------------------------------------------------------------ server start
\* Deno.env of a process that is given neither variable.
NoEnv == [GLUE_DEV_PORT |-> Undefined, GLUE_CLI_WS_ADDR |-> Undefined]

\* The environments of the server-start specification: GLUE_DEV_PORT absent,
\* empty, "7" or "0", with and without the address of the CLI runner.
Envs ==
  {NoEnv,
   [GLUE_DEV_PORT |-> "7", GLUE_CLI_WS_ADDR |-> Undefined],
   [GLUE_DEV_PORT |-> "7", GLUE_CLI_WS_ADDR |-> "ws://cli"],
   [GLUE_DEV_PORT |-> "0", GLUE_CLI_WS_ADDR |-> "ws://cli"],
   [GLUE_DEV_PORT |-> "", GLUE_CLI_WS_ADDR |-> "ws://cli"],
   [GLUE_DEV_PORT |-> Undefined, GLUE_CLI_WS_ADDR |-> "ws://cli"]}
ServeProgram == <<TriggerCall("webhook", "h3", "cfgA", NoLabel)>>
ServeBodies ==
  {Malformed, [ok |-> TRUE, type |-> "webhook", label |-> Undefined, data |-> "x"],
   Body("webhook", "0", "x"), Body("nope", "0", "x")}

\* Number(s) of the decimal string of a port
Number(s) == CHOOSE n \in 0..9 : String(n) = s

NoPort == -1        \* options.port is undefined

\* ... with the loopback hostname in both branches
serveOptionsLoopback(GLUE_DEV_PORT) ==
  IF Falsy(GLUE_DEV_PORT)
    THEN [hostname |-> "127.0.0.1", port |-> 0]
    ELSE [hostname |-> "127.0.0.1", port |-> Number(GLUE_DEV_PORT)]

\* GLUE_DEV_PORT ? { hostname: "127.0.0.1", port: Number(GLUE_DEV_PORT) } : {}
serveOptions(GLUE_DEV_PORT) ==
  IF Falsy(GLUE_DEV_PORT)
    THEN [hostname |-> Undefined, port |-> NoPort]
    ELSE [hostname |-> "127.0.0.1", port |-> Number(GLUE_DEV_PORT)]

\* Deno.serve(options, handler): the options it was given and the address of
\* its listener, which is Deno.serve's default for an option left out.  Port
\* 0 asks the operating system for an ephemeral port.
DefaultHostname == "0.0.0.0"
DefaultPort == 8000
NotListening ==
  [options |-> [hostname |-> Undefined, port |-> NoPort], hostname |-> Undefined,
   port |-> NoPort]
DenoServe(options) ==
  [options |-> options,
   hostname |-> IF options.hostname = Undefined THEN DefaultHostname ELSE options.hostname,
   port |-> IF options.port = NoPort THEN DefaultPort ELSE options.port]

\* startLifeline: new WebSocket(cliWebsocketAddr), made when Deno.serve had
\* been called served times.
NoLifeline == [opened |-> 0, state |-> "none", addr |-> Undefined, serverStarts |-> 0]
startLifeline(cliWebsocketAddr, served) ==
  [opened |-> lifeline.opened + 1, state |-> "open", addr |-> cliWebsocketAddr,
   serverStarts |-> served]

\* ------------------------------------------------------------------- Init
NoCall == [n |-> 0, kind |-> "none", outcome |-> "none", initedBefore |-> FALSE,
           present |-> FALSE, inOther |-> FALSE, afterDispatch |-> FALSE,
           inFirstUnit |-> FALSE]
NoRead == [route |-> "none", inited |-> FALSE, body |-> [array |-> <<>>]]
NoGet == [n |-> 0, sent |-> 0, by |-> NoContext, fetcher |-> 0, outcome |-> "none",
          request |-> NoFetch, received |-> 0, running |-> {}, idle |-> TRUE]

NoExit == -1        \* Deno.exit has not been called

\* The state of the module once loaded, whatever the environment.
Loaded ==
  /\ eventListenersByType = EmptyMap
  /\ accountInjectionsByType = EmptyMap
  /\ nextAutomaticLabel = 0
  /\ hasScheduledInit = FALSE
  /\ hasInited = FALSE
  /\ glueDeploymentId = Undefined
  /\ glueAuthHeader = Undefined
  /\ microtasks = 0
  /\ serverStarts = 0
  /\ inSync = TRUE
  /\ requests = <<>>
  /\ callCount = [fn \in Handlers |-> 0]
  /\ lastRead = NoRead
  /\ lastCall = NoCall
  /\ autoLabels = <<>>
  /\ okCount = [trigger |-> 0, credential |-> 0]
  /\ registered = <<>>
  /\ firstRegUnit = "none"
  /\ now = 0
  /\ originalConsole = [n |-> 0, outside |-> 0, method |-> "none", args |-> <<>>]
  /\ timingStarts = EmptyMap
  /\ objects = <<>>
  /\ serialized = NoSerialized
  /\ fetchers = <<>>
  /\ lastGet = NoGet
  /\ listening = NotListening
  /\ lifeline = NoLifeline
  /\ exitCode = NoExit

\* A process that is given neither GLUE_DEV_PORT nor GLUE_CLI_WS_ADDR.
Init == Loaded /\ env = NoEnv

\* ------------------------------------------------------- registration calls
\* What a registration call that got result res (of scheduleInit s) records.
Outcome(s, res) ==
  IF s.threw THEN "AlreadyInitialized" ELSE IF res.threw THEN "DuplicateLabel" ELSE "ok"

RecordCall(kind, byType, type, callback, config, label, s, res) ==
  /\ lastCall' = [n |-> IF s.threw THEN lastCall.n ELSE lastCall.n + 1, kind |-> kind,
                  outcome |-> Outcome(s, res), initedBefore |-> hasInited,
                  present |-> ~s.threw /\ HasEntry(byType, type, res.label),
                  inOther |-> ~s.threw /\
                              HasEntry(IF kind = "trigger" THEN accountInjectionsByType
                                                           ELSE eventListenersByType,
                                       type, res.label),
                  afterDispatch |-> \E i \in 1..Len(requests) : requests[i].pc = "done",
                  inFirstUnit |-> firstRegUnit \in {"none", "running"}]
  /\ autoLabels' = IF ~s.threw /\ label = NoLabel THEN Append(autoLabels, res.label)
                                                   ELSE autoLabels
  /\ okCount' = IF Outcome(s, res) = "ok" THEN [okCount EXCEPT ![kind] = @ + 1] ELSE okCount
  /\ registered' = IF Outcome(s, res) = "ok"
                     THEN Append(registered, [kind |-> kind, type |-> type, label |-> res.label,
                                              fn |-> callback, config |-> config])
                     ELSE registered
  /\ firstRegUnit' = IF firstRegUnit = "none" THEN "running" ELSE firstRegUnit

\* ... with the label resolved before the call of scheduleInit()
gatedRegistrationLabelFirst(s, res, byType) ==
  [map |-> IF s.threw THEN byType ELSE res.map, next |-> res.next]

\* scheduleInit() is the first statement of both registration functions:
\* when it throws, the registry byType and the counter are not touched.
gatedRegistration(s, res, byType) ==
  IF s.threw THEN [map |-> byType, next |-> nextAutomaticLabel]
             ELSE [map |-> res.map, next |-> res.next]

RegisterEventListener(eventName, callback, config, label) ==
  /\ inSync
  /\ hasInited \/ lastCall.n < MaxRegs
  /\ LET s == scheduleInit
         res == registerEventListener(eventName, callback, config, label)
     IN /\ hasScheduledInit' = s.hasScheduledInit
        /\ microtasks' = s.microtasks
        /\ eventListenersByType' = gatedRegistration(s, res, eventListenersByType).map
        /\ nextAutomaticLabel' = gatedRegistration(s, res, eventListenersByType).next
        /\ UNCHANGED accountInjectionsByType
        /\ RecordCall("trigger", eventListenersByType, eventName, callback, config, label, s, res)
  /\ UNCHANGED <<serveVars, hasInited, serverStarts, headerVars, inSync, requestVars, logVars,
                 fetchVars>>

RegisterAccountInjection(type, config, label) ==
  /\ inSync
  /\ hasInited \/ lastCall.n < MaxRegs
  /\ LET s == scheduleInit
         res == registerAccountInjection(type, config, label)
     IN /\ hasScheduledInit' = s.hasScheduledInit
        /\ microtasks' = s.microtasks
        /\ accountInjectionsByType' = gatedRegistration(s, res, accountInjectionsByType).map
        /\ nextAutomaticLabel' = gatedRegistration(s, res, accountInjectionsByType).next
        /\ UNCHANGED eventListenersByType
        /\ RecordCall("credential", accountInjectionsByType, type, NoListener.fn, config, label, s, res)
        /\ fetchers' = IF s.threw \/ res.threw THEN fetchers ELSE Append(fetchers, res.fetcher)
  /\ UNCHANGED <<serveVars, hasInited, serverStarts, headerVars, inSync, requestVars, logVars,
                 lastGet>>

\* ------------------------------------------------------ execution units
\* The running synchronous unit of user code returns.
EndUnit ==
  /\ inSync
  /\ inSync' = FALSE
  /\ firstRegUnit' = IF firstRegUnit = "running" THEN "ended" ELSE firstRegUnit
  /\ UNCHANGED <<serveVars, registryVars, initVars, headerVars, requestVars, lastCall, autoLabels,
                 okCount, registered, logVars, fetchVars>>

\* A later callback of user code (a timer, an I/O completion) starts: only
\* when no synchronous code runs and the microtask queue is empty.
BeginUnit ==
  /\ ~inSync
  /\ microtasks = 0
  /\ exitCode = NoExit
  /\ inSync' = TRUE
  /\ UNCHANGED <<serveVars, registryVars, initVars, headerVars, requestVars, callVars, logVars,
                 fetchVars>>

\* The microtask queued by scheduleInit: hasInited = true, Deno.serve(...),
\* startLifeline(...).
initMicrotaskNoServe ==
  [hasInited |-> TRUE, serverStarts |-> serverStarts, listening |-> listening,
   lifeline |-> lifeline]

\* ... connecting the lifeline before Deno.serve(...)
initMicrotaskLifelineFirst ==
  LET connected == IF ~Falsy(env.GLUE_DEV_PORT) /\ ~Falsy(env.GLUE_CLI_WS_ADDR)
                     THEN startLifeline(env.GLUE_CLI_WS_ADDR, serverStarts)
                     ELSE lifeline
  IN [hasInited |-> TRUE, serverStarts |-> serverStarts + 1,
      listening |-> DenoServe(serveOptions(env.GLUE_DEV_PORT)),
      lifeline |-> connected]

initMicrotask ==
  LET served == serverStarts + 1
      connected == IF ~Falsy(env.GLUE_DEV_PORT) /\ ~Falsy(env.GLUE_CLI_WS_ADDR)
                     THEN startLifeline(env.GLUE_CLI_WS_ADDR, served)
                     ELSE lifeline
  IN [hasInited |-> TRUE, serverStarts |-> served,
      listening |-> DenoServe(serveOptions(env.GLUE_DEV_PORT)),
      lifeline |-> connected]

\* A deferred task runs only once the synchronous unit has completed.
microtaskMayRunEager == TRUE

microtaskMayRun == ~inSync

InitMicrotask ==
  /\ microtasks > 0
  /\ microtaskMayRun
  /\ microtasks' = microtasks - 1
  /\ hasInited' = initMicrotask.hasInited
  /\ serverStarts' = initMicrotask.serverStarts
  /\ listening' = initMicrotask.listening
  /\ lifeline' = initMicrotask.lifeline
  /\ UNCHANGED <<env, userVars, exitCode, registryVars, hasScheduledInit, headerVars, inSync,
                 requestVars, callVars, logVars, fetchVars>>

\* ------------------------------------------------------- the HTTP routes
\* I/O callbacks run when no synchronous code runs and no microtask is queued,
\* in a process that has not exited.
CallbackMayRun == ~inSync /\ microtasks = 0 /\ exitCode = NoExit
Serving == serverStarts > 0 /\ CallbackMayRun

\* GET /__glue__/getRegistrations and GET /__glue__/getRegisteredTriggers:
\* the body of the first is an object, the body of the second the array
\* [array |-> its elements].
GetRegistrations(route) ==
  /\ Serving
  /\ lastRead' = [route |-> route, inited |-> hasInited,
                  body |-> IF route = "getRegistrations"
                             THEN getRegistrations
                             ELSE [array |-> getRegistrations.triggers]]
  /\ UNCHANGED <<serveVars, registryVars, initVars, headerVars, inSync, requests,
                 callCount, callVars, logVars, fetchVars>>

\* ... keeping the value it has when the request lacks the header
triggerEventHeadersKeepPrevious(headers) ==
  [dep |-> IF headers.dep = Undefined THEN glueDeploymentId ELSE headers.dep,
   auth |-> IF headers.auth = Undefined THEN glueAuthHeader ELSE headers.auth]

\* What the route assigns to glueDeploymentId and glueAuthHeader:
\* c.req.header(name) is undefined when the request lacks the header.
triggerEventHeaders(headers) == [dep |-> headers.dep, auth |-> headers.auth]

\* ... with the two assignments after TriggerEvent.parse and the lookup of
\* the listener
triggerEventCaptureAfterLookup(body, headers) ==
  IF TriggerEventParse(body).threw \/ lookupListener(body.type, body.label) = NoListener
    THEN [dep |-> glueDeploymentId, auth |-> glueAuthHeader]
    ELSE triggerEventHeaders(headers)

\* The first statements of the route: both variables are assigned before
\* the body is read, parsed and looked up.
triggerEventCapture(body, headers) == triggerEventHeaders(headers)

\* POST /__glue__/triggerEvent up to "await c.req.json()"
ReceiveTriggerEvent(body, headers) ==
  /\ Serving
  /\ Len(requests) < MaxRequests
  /\ glueDeploymentId' = triggerEventCapture(body, headers).dep
  /\ glueAuthHeader' = triggerEventCapture(body, headers).auth
  /\ requests' = Append(requests,
       [body |-> body, headers |-> headers, inited |-> hasInited, pc |-> "json",
        fn |-> NoListener.fn, calls |-> <<>>, ip |-> 0, logs |-> <<>>, ctx |-> FALSE,
        status |-> 0, error |-> Undefined, at |-> now, emits |-> 0, emitsAtExit |-> 0,
        stray |-> <<>>, fetches |-> <<>>, awaiting |-> "none", settled |-> <<>>,
        caught |-> <<>>, regs |-> <<>>])
  /\ UNCHANGED <<serveVars, registryVars, initVars, inSync, callCount, lastRead, callVars, logVars,
                 fetchVars>>

\* ... without the try / catch of runInLoggingContext: the rejection leaves
\* the route and the framework answers 500.
AfterSegmentRethrow(r, seg) ==
  CASE seg.state = "suspended" -> [r EXCEPT !.pc = "handler", !.ip = seg.ip]
    [] seg.state = "returned" ->
         LET out == runInLoggingContextReturn(r.logs) IN
         [r EXCEPT !.pc = "done", !.ip = seg.ip, !.logs = out.logs, !.ctx = FALSE,
                   !.status = 200, !.error = out.error, !.emitsAtExit = r.emits]
    [] seg.state = "threw" ->
         [r EXCEPT !.pc = "done", !.ip = seg.ip, !.ctx = FALSE, !.status = 500,
                   !.emitsAtExit = r.emits]

\* ... without the finally of runInLoggingContext: logContext.logs stays set.
AfterSegmentKeepLogs(r, seg) ==
  CASE seg.state = "suspended" -> [r EXCEPT !.pc = "handler", !.ip = seg.ip]
    [] seg.state = "returned" ->
         LET out == runInLoggingContextReturn(r.logs) IN
         [r EXCEPT !.pc = "done", !.ip = seg.ip, !.logs = out.logs,
                   !.status = 200, !.error = out.error, !.emitsAtExit = r.emits]
    [] seg.state = "threw" ->
         LET out == runInLoggingContextCatch(seg.value, r.logs) IN
         [r EXCEPT !.pc = "done", !.ip = seg.ip, !.logs = out.logs,
                   !.status = 200, !.error = out.error, !.emitsAtExit = r.emits]

\* ... without the await of the handler's promise: the route answers when
\* the handler suspends.
AfterSegmentNoAwait(r, seg) ==
  CASE seg.state \in {"suspended", "returned"} ->
         LET out == runInLoggingContextReturn(r.logs) IN
         [r EXCEPT !.pc = "done", !.ip = seg.ip, !.logs = out.logs, !.ctx = FALSE,
                   !.status = 200, !.error = out.error, !.emitsAtExit = r.emits]
    [] seg.state = "threw" ->
         LET out == runInLoggingContextCatch(seg.value, r.logs) IN
         [r EXCEPT !.pc = "done", !.ip = seg.ip, !.logs = out.logs, !.ctx = FALSE,
                   !.status = 200, !.error = out.error, !.emitsAtExit = r.emits]

\* What request r becomes when its handler segment has run: it stays
\* suspended, or runInLoggingContext returns and the route answers
\* c.json({logs, error}).
AfterSegment(r, seg) ==
  CASE seg.state = "suspended" -> [r EXCEPT !.pc = "handler", !.ip = seg.ip]
    [] seg.state = "returned" ->
         LET out == runInLoggingContextReturn(r.logs) IN
         [r EXCEPT !.pc = "done", !.ip = seg.ip, !.logs = out.logs, !.ctx = FALSE,
                   !.status = 200, !.error = out.error, !.emitsAtExit = r.emits]
    [] seg.state = "threw" ->
         LET out == runInLoggingContextCatch(seg.value, r.logs) IN
         [r EXCEPT !.pc = "done", !.ip = seg.ip, !.logs = out.logs, !.ctx = FALSE,
                   !.status = 200, !.error = out.error, !.emitsAtExit = r.emits]

\* The state after request i's handler segment seg: the request as above,
\* and the original console.error that logger.error(e) calls in the catch.
Settle(i, seg) ==
  [seg.st EXCEPT !.reqs[i] = AfterSegment(seg.st.reqs[i], seg),
                 !.console = IF seg.state = "threw"
                               THEN originalMethod("error", <<seg.value>>, seg.st.console)
                               ELSE seg.st.console]

\* What a unit of user code that ends in st has written.
Commit(st) ==
  /\ requests' = st.reqs
  /\ originalConsole' = st.console
  /\ timingStarts' = st.timers
  /\ lastGet' = st.lastGet
  /\ eventListenersByType' = st.listeners
  /\ accountInjectionsByType' = st.injections
  /\ nextAutomaticLabel' = st.next
  /\ hasScheduledInit' = st.scheduled
  /\ microtasks' = st.microtasks

\* The calls of the listener's fn that handleTrigger makes.
handleTriggerCallsTwice(listener, data) ==
  <<[fn |-> listener.fn, data |-> data], [fn |-> listener.fn, data |-> data]>>

handleTriggerCalls(listener, data) == <<[fn |-> listener.fn, data |-> data]>>

\* The rest of the route once the body has arrived: TriggerEvent.parse,
\* runInLoggingContext(() => handleTrigger(body)) up to the handler's first
\* suspension, or to the response.
ParseAndDispatch(i) ==
  /\ CallbackMayRun
  /\ i \in 1..Len(requests)
  /\ requests[i].pc = "json"
  /\ LET r == requests[i]
         listener == lookupListener(r.body.type, r.body.label)
     IN IF TriggerEventParse(r.body).threw
          THEN \* the ZodError leaves the route: the framework answers 500
               /\ requests' = [requests EXCEPT ![i] = [r EXCEPT !.pc = "done", !.status = 500]]
               /\ UNCHANGED <<callCount, originalConsole, timingStarts, lastGet, registryVars,
                              hasScheduledInit, microtasks>>
          ELSE IF listener = NoListener
            THEN LET e == UnknownTriggerError(r.body.type, r.body.label)
                     out == runInLoggingContextCatch(e, runInLoggingContextEnter(r).logs)
                 IN /\ requests' = [requests EXCEPT ![i] =
                          [r EXCEPT !.pc = "done", !.logs = out.logs, !.status = 200,
                                    !.error = out.error]]
                    /\ originalConsole' = originalMethod("error", <<e>>, originalConsole)
                    /\ UNCHANGED <<callCount, timingStarts, lastGet, registryVars, hasScheduledInit,
                                   microtasks>>
            ELSE LET calls == handleTriggerCalls(listener, r.body.data)
                     entered == [Current EXCEPT !.reqs[i] =
                                   [runInLoggingContextEnter(r) EXCEPT !.fn = listener.fn,
                                                                       !.calls = calls]]
                 IN /\ callCount' = [callCount EXCEPT ![listener.fn] = @ + Len(calls)]
                    /\ Commit(Settle(i, RunSegment(i, 1, entered)))
  /\ UNCHANGED <<serveVars, hasInited, serverStarts, headerVars, inSync, lastRead, callVars, now,
                 fetchers>>

\* The awaited promise of a suspended handler settles and the handler goes on.
ResumeHandler(i) ==
  /\ CallbackMayRun
  /\ i \in 1..Len(requests)
  /\ requests[i].pc = "handler"
  /\ requests[i].awaiting = "none"
  /\ Commit(Settle(i, RunSegment(i, requests[i].ip, Current)))
  /\ UNCHANGED <<serveVars, hasInited, serverStarts, headerVars, inSync, callCount,
                 lastRead, callVars, now, fetchers>>

\* The credential authority answers the fetch that the handler of request i
\* awaits, and the handler goes on: a rejected get() is thrown where it is
\* awaited.
FetchSettles(i, res) ==
  /\ CallbackMayRun
  /\ i \in 1..Len(requests)
  /\ requests[i].pc = "handler"
  /\ requests[i].awaiting = "fetch"
  /\ LET step == Script(requests[i].fn)[requests[i].ip - 1]
         o == fetcherAfterFetch(res)
         settled == [Current EXCEPT
                       !.reqs[i].awaiting = "none",
                       !.reqs[i].settled =
                          Append(@, [response |-> res, threw |-> o.threw, value |-> o.value])]
         seg == IF o.threw /\ step.op = "get"
                  THEN [state |-> "threw", ip |-> requests[i].ip, st |-> settled,
                        value |-> o.value]
                  ELSE RunSegment(i, requests[i].ip,
                                  IF o.threw
                                    THEN [settled EXCEPT !.reqs[i].caught = Append(@, o.value)]
                                    ELSE settled)
     IN Commit(Settle(i, seg))
  /\ UNCHANGED <<serveVars, hasInited, serverStarts, headerVars, inSync, callCount,
                 lastRead, callVars, now, fetchers>>

\* Work that a handler started without awaiting it makes its next call; it
\* runs in the async context of the request that started it.
StrayEmission(i) ==
  /\ CallbackMayRun
  /\ i \in 1..Len(requests)
  /\ requests[i].stray # <<>>
  /\ LET step == Head(requests[i].stray)
         popped == [Current EXCEPT !.reqs[i].stray = Tail(@)]
     IN Commit(IF step.op = "logger"
                 THEN logger(step.method, step.args, i, popped)
                 ELSE patchedConsole(step.method, step.args, i, popped))
  /\ UNCHANGED <<serveVars, hasInited, serverStarts, headerVars, inSync, callCount,
                 lastRead, callVars, now, fetchers>>

\* User code outside every logging context (module load, registration, a
\* timer callback that does nothing else) calls console[methodName](...args).
ConsoleOutside(methodName, args) ==
  /\ inSync \/ CallbackMayRun
  /\ originalConsole.outside < MaxOutside
  /\ Commit(patchedConsole(methodName, args, NoContext, Current))
  /\ UNCHANGED <<serveVars, hasInited, serverStarts, headerVars, inSync, callCount,
                 lastRead, callVars, now, fetchers>>

\* User code outside every handler (the top level, a timer callback that
\* does nothing else) calls get() of the k-th fetcher.
GetOutside(k) ==
  /\ inSync \/ CallbackMayRun
  /\ k \in 1..Len(fetchers)
  /\ lastGet.n < MaxGets
  /\ lastGet' = RecordGet(NoContext, k, fetcherGet(fetchers[k]), Current)
  /\ UNCHANGED <<serveVars, registryVars, initVars, headerVars, inSync, requestVars, callVars,
                 logVars, fetchers>>

\* Time passes.
Tick ==
  /\ now < MaxClock
  /\ now' = now + 1
  /\ UNCHANGED <<serveVars, registryVars, initVars, headerVars, inSync, requestVars, callVars,
                 originalConsole, timingStarts, fetchVars>>

\* ws.onclose / ws.onerror of startLifeline: Deno.exit(5).
LifelineExitCode == 5

wsOnclose ==
  [exitCode |-> LifelineExitCode, lifeline |-> [lifeline EXCEPT !.state = "closed"]]

LifelineClose ==
  /\ CallbackMayRun
  /\ lifeline.state = "open"
  /\ exitCode' = wsOnclose.exitCode
  /\ lifeline' = wsOnclose.lifeline
  /\ UNCHANGED <<env, userVars, listening, registryVars, initVars, headerVars, inSync, requestVars,
                 callVars, logVars, fetchVars>>

\* ws.onerror: console.error(event.error), then Deno.exit(5).
LifelineError(error) ==
  /\ CallbackMayRun
  /\ lifeline.state = "open"
  /\ Commit(patchedConsole("error", <<error>>, NoContext, Current))
  /\ exitCode' = LifelineExitCode
  /\ lifeline' = [lifeline EXCEPT !.state = "errored"]
  /\ UNCHANGED <<env, userVars, listening, hasInited, serverStarts, headerVars, inSync, callCount,
                 lastRead, callVars, now, fetchers>>

\* A program whose user code (outside callbacks) is its top-level unit and
\* registers triggers only.
Next ==
  \/ \E c \in ProgramTriggerCalls : RegisterEventListener(c.type, c.fn, c.config, c.label)
  \/ EndUnit
  \/ InitMicrotask
  \/ \E route \in Routes : GetRegistrations(route)
  \/ \E body \in Bodies, headers \in HeaderPairs : ReceiveTriggerEvent(body, headers)
  \/ \E i \in 1..MaxRequests : ParseAndDispatch(i)
  \/ \E i \in 1..MaxRequests : ResumeHandler(i)

Spec == Init /\ [][Next]_vars

\* The same operations under every registration call of RegistryTriggerCalls
\* and RegistryCredentialCalls and with later synchronous units of user code,
\* with one request body.
NextRegistry ==
  \/ \E c \in RegistryTriggerCalls : RegisterEventListener(c.type, c.fn, c.config, c.label)
  \/ \E c \in RegistryCredentialCalls : RegisterAccountInjection(c.type, c.config, c.label)
  \/ EndUnit
  \/ BeginUnit
  \/ InitMicrotask
  \/ \E route \in Routes : GetRegistrations(route)
  \/ \E body \in RegistryBodies, headers \in HeaderPairs : ReceiveTriggerEvent(body, headers)
  \/ \E i \in 1..MaxRequests : ParseAndDispatch(i)
  \/ \E i \in 1..MaxRequests : ResumeHandler(i)

SpecRegistry == Init /\ [][NextRegistry]_vars

\* Synchronous code runs to completion and a queued microtask is run.
FairSpecRegistry == SpecRegistry /\ WF_vars(EndUnit) /\ WF_vars(InitMicrotask)

\* The operations under console calls outside every logging context and work
\* that handlers leave behind.
NextLogging ==
  \/ /\ lastCall.n < Len(LoggingProgram)
     /\ LET c == LoggingProgram[lastCall.n + 1]
        IN RegisterEventListener(c.type, c.fn, c.config, c.label)
  \/ EndUnit
  \/ InitMicrotask
  \/ \E c \in OutsideCalls : ConsoleOutside(c.method, c.args)
  \/ \E body \in LoggingBodies, headers \in HeaderPairs : ReceiveTriggerEvent(body, headers)
  \/ \E i \in 1..MaxRequests : ParseAndDispatch(i)
  \/ \E i \in 1..MaxRequests : ResumeHandler(i)
  \/ \E i \in 1..MaxRequests : StrayEmission(i)

SpecLogging == Init /\ [][NextLogging]_vars

\* Dispatches of one handler while the clock advances.
NextClock ==
  \/ /\ lastCall.n < Len(ClockProgram)
     /\ LET c == ClockProgram[lastCall.n + 1]
        IN RegisterEventListener(c.type, c.fn, c.config, c.label)
  \/ EndUnit
  \/ InitMicrotask
  \/ Tick
  \/ \E body \in ClockBodies, headers \in HeaderPairs : ReceiveTriggerEvent(body, headers)
  \/ \E i \in 1..MaxRequests : ParseAndDispatch(i)
  \/ \E i \in 1..MaxRequests : ResumeHandler(i)
  \/ \E i \in 1..MaxRequests : StrayEmission(i)

SpecClock == Init /\ [][NextClock]_vars

\* A program that obtains two fetchers and uses them in its handlers and
\* outside them, under requests of two deployments and requests without the
\* glue headers.
NextCredentials ==
  \/ /\ lastCall.n < Len(CredentialProgram)
     /\ LET c == CredentialProgram[lastCall.n + 1]
        IN /\ c.kind = "trigger"
           /\ RegisterEventListener(c.type, c.fn, c.config, c.label)
  \/ /\ lastCall.n < Len(CredentialProgram)
     /\ LET c == CredentialProgram[lastCall.n + 1]
        IN /\ c.kind = "credential"
           /\ RegisterAccountInjection(c.type, c.config, c.label)
  \/ EndUnit
  \/ InitMicrotask
  \/ \E k \in 1..MaxGets : GetOutside(k)
  \/ \E body \in CredentialBodies, headers \in CredentialHeaders :
       ReceiveTriggerEvent(body, headers)
  \/ \E i \in 1..MaxRequests : ParseAndDispatch(i)
  \/ \E i \in 1..MaxRequests, res \in CredentialResponses : FetchSettles(i, res)

SpecCredentials == Init /\ [][NextCredentials]_vars

\* The credential program under requests that are answered without a
\* handler while a handler is suspended.
NextOverwrite ==
  \/ /\ lastCall.n < Len(CredentialProgram)
     /\ LET c == CredentialProgram[lastCall.n + 1]
        IN /\ c.kind = "trigger"
           /\ RegisterEventListener(c.type, c.fn, c.config, c.label)
  \/ /\ lastCall.n < Len(CredentialProgram)
     /\ LET c == CredentialProgram[lastCall.n + 1]
        IN /\ c.kind = "credential"
           /\ RegisterAccountInjection(c.type, c.config, c.label)
  \/ EndUnit
  \/ InitMicrotask
  \/ \E body \in OverwriteBodies, headers \in OverwriteHeaders :
       ReceiveTriggerEvent(body, headers)
  \/ \E i \in 1..MaxRequests : ParseAndDispatch(i)
  \/ \E i \in 1..MaxRequests, res \in CredentialResponses : FetchSettles(i, res)

SpecOverwrite == Init /\ [][NextOverwrite]_vars

\* The credential program under requests that lack one of the glue headers
\* or carry it empty.
NextNotReady ==
  \/ /\ lastCall.n < Len(CredentialProgram)
     /\ LET c == CredentialProgram[lastCall.n + 1]
        IN /\ c.kind = "trigger"
           /\ RegisterEventListener(c.type, c.fn, c.config, c.label)
  \/ /\ lastCall.n < Len(CredentialProgram)
     /\ LET c == CredentialProgram[lastCall.n + 1]
        IN /\ c.kind = "credential"
           /\ RegisterAccountInjection(c.type, c.config, c.label)
  \/ EndUnit
  \/ InitMicrotask
  \/ \E k \in 1..MaxGets : GetOutside(k)
  \/ \E body \in CredentialBodies, headers \in NotReadyHeaders :
       ReceiveTriggerEvent(body, headers)
  \/ \E i \in 1..MaxRequests : ParseAndDispatch(i)
  \/ \E i \in 1..MaxRequests, res \in CredentialResponses : FetchSettles(i, res)

SpecNotReady == Init /\ [][NextNotReady]_vars

\* A program that goes on registering after its first registration, also in
\* callbacks that run when the machine has closed.
NextRejected ==
  \/ /\ lastCall.n < Len(ClockProgram)
     /\ LET c == ClockProgram[lastCall.n + 1]
        IN RegisterEventListener(c.type, c.fn, c.config, c.label)
  \/ \E c \in RejectedCalls :
       /\ lastCall.n >= Len(ClockProgram)
       /\ c.kind = "trigger"
       /\ RegisterEventListener(c.type, c.fn, c.config, c.label)
  \/ \E c \in RejectedCalls :
       /\ lastCall.n >= Len(ClockProgram)
       /\ c.kind = "credential"
       /\ RegisterAccountInjection(c.type, c.config, c.label)
  \/ EndUnit
  \/ BeginUnit
  \/ InitMicrotask
  \/ \E body \in ClockBodies, headers \in HeaderPairs : ReceiveTriggerEvent(body, headers)
  \/ \E i \in 1..MaxRequests : ParseAndDispatch(i)
  \/ \E i \in 1..MaxRequests : ResumeHandler(i)

SpecRejected == Init /\ [][NextRejected]_vars

\* Programs that register a (type, label) twice, with different handlers
\* and configs, in every order.
NextDuplicate ==
  \/ \E c \in DuplicateCalls :
       /\ c.kind = "trigger"
       /\ RegisterEventListener(c.type, c.fn, c.config, c.label)
  \/ \E c \in DuplicateCalls :
       /\ c.kind = "credential"
       /\ RegisterAccountInjection(c.type, c.config, c.label)
  \/ EndUnit
  \/ InitMicrotask
  \/ \E body \in DuplicateBodies, headers \in HeaderPairs : ReceiveTriggerEvent(body, headers)
  \/ \E i \in 1..MaxRequests : ParseAndDispatch(i)

SpecDuplicate == Init /\ [][NextDuplicate]_vars

\* A program whose unlabelled calls are given labels that explicit labels
\* hold or will ask for.
NextCounter ==
  \/ /\ lastCall.n < Len(CounterProgram)
     /\ LET c == CounterProgram[lastCall.n + 1]
        IN /\ c.kind = "trigger"
           /\ RegisterEventListener(c.type, c.fn, c.config, c.label)
  \/ /\ lastCall.n < Len(CounterProgram)
     /\ LET c == CounterProgram[lastCall.n + 1]
        IN /\ c.kind = "credential"
           /\ RegisterAccountInjection(c.type, c.config, c.label)
  \/ EndUnit
  \/ InitMicrotask
  \/ \E route \in Routes : GetRegistrations(route)
  \/ \E body \in CounterBodies, headers \in HeaderPairs : ReceiveTriggerEvent(body, headers)
  \/ \E i \in 1..MaxRequests : ParseAndDispatch(i)

SpecCounter == Init /\ [][NextCounter]_vars

\* What user code builds and logs in the serialization specification: up to
\* MaxObjects Sets, Maps and plain objects holding up to MaxEntries entries
\* between them, their members a number, a bigint or any of the objects, the
\* keys of Maps and plain objects two strings.
MaxObjects == 2
MaxEntries == 2
ContainerKinds == {"Set", "Map", "Object"}
Members == {Num(5), BigInt(7)} \cup {Ref(id) : id \in 1..MaxObjects}
Keys == {Str("a"), Str("b")}

\* new Set(), new Map() or {}
NewContainer(kind) ==
  /\ serialized = NoSerialized
  /\ Len(objects) < MaxObjects
  /\ objects' = Append(objects, Container(kind))
  /\ UNCHANGED <<serialized, registryVars, initVars, headerVars, inSync, requestVars,
                 callVars, logVars, fetchVars, env, listening, lifeline, exitCode>>

RECURSIVE EntriesFrom(_, _)
EntriesFrom(heap, id) ==
  IF id > Len(heap) THEN 0 ELSE Len(heap[id].entries) + EntriesFrom(heap, id + 1)

\* Set.prototype.add
SetAdd(entries, x) ==
  IF \E i \in 1..Len(entries) : entries[i].value = x
    THEN entries ELSE Append(entries, [key |-> x, value |-> x])

\* objects[id].add(x) of a Set; objects[id].set(k, x) of a Map and
\* objects[id][k] = x of a plain object
AddEntry(id, k, x) ==
  /\ serialized = NoSerialized
  /\ id \in 1..Len(objects)
  /\ x.t = "reference" => x.v \in 1..Len(objects)
  /\ LET entries == IF objects[id].kind = "Set"
                      THEN SetAdd(objects[id].entries, x)
                      ELSE MapSet(objects[id].entries, k, x)
     IN /\ EntriesFrom(objects, 1) - Len(objects[id].entries) + Len(entries) <= MaxEntries
        /\ objects' = [objects EXCEPT ![id].entries = entries]
  /\ UNCHANGED <<serialized, registryVars, initVars, headerVars, inSync, requestVars,
                 callVars, logVars, fetchVars, env, listening, lifeline, exitCode>>

\* serializeConsoleArgumentsToString(["hello", ...objects])
SerializeArguments ==
  /\ objects # <<>>
  /\ serialized' = serializeOutcome(<<Str("hello")>> \o [id \in 1..Len(objects) |-> Ref(id)])
  /\ UNCHANGED <<objects, registryVars, initVars, headerVars, inSync, requestVars,
                 callVars, logVars, fetchVars, env, listening, lifeline, exitCode>>

\* User code that builds objects and then serializes them.
NextSerialization ==
  \/ \E kind \in ContainerKinds : NewContainer(kind)
  \/ \E id \in 1..MaxObjects, k \in Keys, x \in Members : AddEntry(id, k, x)
  \/ SerializeArguments

SpecSerialization == Init /\ [][NextSerialization]_vars

\* Dispatches of a handler that uses every patched console method and a
\* timer, while the clock advances.
NextTiming ==
  \/ /\ lastCall.n < Len(TimingProgram)
     /\ LET c == TimingProgram[lastCall.n + 1]
        IN RegisterEventListener(c.type, c.fn, c.config, c.label)
  \/ EndUnit
  \/ InitMicrotask
  \/ Tick
  \/ \E body \in TimingBodies, headers \in HeaderPairs : ReceiveTriggerEvent(body, headers)
  \/ \E i \in 1..MaxRequests : ParseAndDispatch(i)
  \/ \E i \in 1..MaxRequests : ResumeHandler(i)

SpecTiming == Init /\ [][NextTiming]_vars

\* The credential program under introspection requests as well.
NextHeaders ==
  \/ NextCredentials
  \/ GetRegistrations("getRegistrations")

SpecHeaders == Init /\ [][NextHeaders]_vars

\* A program whose handlers fetch a credential, under every response of the
\* credential authority.
NextFetch ==
  \/ /\ lastCall.n < Len(FetchProgram)
     /\ LET c == FetchProgram[lastCall.n + 1]
        IN /\ c.kind = "trigger"
           /\ RegisterEventListener(c.type, c.fn, c.config, c.label)
  \/ /\ lastCall.n < Len(FetchProgram)
     /\ LET c == FetchProgram[lastCall.n + 1]
        IN /\ c.kind = "credential"
           /\ RegisterAccountInjection(c.type, c.config, c.label)
  \/ EndUnit
  \/ InitMicrotask
  \/ \E body \in FetchBodies, headers \in HeaderPairs : ReceiveTriggerEvent(body, headers)
  \/ \E i \in 1..MaxRequests : ParseAndDispatch(i)
  \/ \E i \in 1..MaxRequests, res \in Responses : FetchSettles(i, res)

SpecFetch == Init /\ [][NextFetch]_vars

\* The event loop runs a callback that is ready, and the credential
\* authority answers every fetch.
\* Weak fairness is written with the guards of the two callbacks.
DispatchReady(i) ==
  CallbackMayRun /\ i <= Len(requests) /\ requests[i].pc = "json"
FetchPending(i) ==
  /\ CallbackMayRun /\ i <= Len(requests)
  /\ requests[i].pc = "handler" /\ requests[i].awaiting = "fetch"
FairSpecFetch ==
  /\ SpecFetch
  /\ \A i \in 1..MaxRequests :
       []<>~DispatchReady(i) \/ []<><<ParseAndDispatch(i)>>_vars
  /\ \A i \in 1..MaxRequests :
       []<>~FetchPending(i) \/ []<><<\E res \in Responses : FetchSettles(i, res)>>_vars

\* A program whose handlers make registration calls, one in a try.
NextReregister ==
  \/ /\ lastCall.n < Len(ReregisterProgram)
     /\ LET c == ReregisterProgram[lastCall.n + 1]
        IN RegisterEventListener(c.type, c.fn, c.config, c.label)
  \/ EndUnit
  \/ InitMicrotask
  \/ \E route \in Routes : GetRegistrations(route)
  \/ \E body \in ReregisterBodies, headers \in HeaderPairs : ReceiveTriggerEvent(body, headers)
  \/ \E i \in 1..MaxRequests : ParseAndDispatch(i)
  \/ \E i \in 1..MaxRequests : ResumeHandler(i)

SpecReregister == Init /\ [][NextReregister]_vars

\* The program of the fetch specification under introspection requests
\* and registration calls made from later units of user code.
NextFrozen ==
  \/ /\ lastCall.n < Len(FetchProgram)
     /\ LET c == FetchProgram[lastCall.n + 1]
        IN /\ c.kind = "trigger"
           /\ RegisterEventListener(c.type, c.fn, c.config, c.label)
  \/ /\ lastCall.n < Len(FetchProgram)
     /\ LET c == FetchProgram[lastCall.n + 1]
        IN /\ c.kind = "credential"
           /\ RegisterAccountInjection(c.type, c.config, c.label)
  \/ \E c \in LateCalls :
       /\ lastCall.n = Len(FetchProgram)
       /\ c.kind = "trigger"
       /\ RegisterEventListener(c.type, c.fn, c.config, c.label)
  \/ \E c \in LateCalls :
       /\ lastCall.n = Len(FetchProgram)
       /\ c.kind = "credential"
       /\ RegisterAccountInjection(c.type, c.config, c.label)
  \/ EndUnit
  \/ BeginUnit
  \/ InitMicrotask
  \/ \E route \in Routes : GetRegistrations(route)
  \/ \E body \in FetchBodies, headers \in HeaderPairs : ReceiveTriggerEvent(body, headers)
  \/ \E i \in 1..MaxRequests : ParseAndDispatch(i)
  \/ \E i \in 1..MaxRequests, res \in Responses : FetchSettles(i, res)

SpecFrozen == Init /\ [][NextFrozen]_vars

\* Programs that use one label in both namespaces, in every order.
NextNamespaces ==
  \/ \E c \in NamespaceCalls :
       /\ c.kind = "trigger"
       /\ RegisterEventListener(c.type, c.fn, c.config, c.label)
  \/ \E c \in NamespaceCalls :
       /\ c.kind = "credential"
       /\ RegisterAccountInjection(c.type, c.config, c.label)
  \/ EndUnit
  \/ InitMicrotask
  \/ \E body \in NamespaceBodies, headers \in HeaderPairs : ReceiveTriggerEvent(body, headers)
  \/ \E i \in 1..MaxRequests : ParseAndDispatch(i)

SpecNamespaces == Init /\ [][NextNamespaces]_vars

\* A program with one failing handler, started in each environment of Envs,
\* whose lifeline may close or fail.
InitServe == Loaded /\ env \in Envs

NextServe ==
  \/ /\ lastCall.n < Len(ServeProgram)
     /\ LET c == ServeProgram[lastCall.n + 1]
        IN RegisterEventListener(c.type, c.fn, c.config, c.label)
  \/ EndUnit
  \/ InitMicrotask
  \/ \E route \in Routes : GetRegistrations(route)
  \/ \E body \in ServeBodies, headers \in HeaderPairs : ReceiveTriggerEvent(body, headers)
  \/ \E i \in 1..MaxRequests : ParseAndDispatch(i)
  \/ LifelineClose
  \/ LifelineError(Err(<<"connection refused">>))

SpecServe == InitServe /\ [][NextServe]_vars

\* ================================================================== claims
Done(i) == requests[i].pc = "done"
TriggerEntries == getRegistrations.triggers
CredentialEntries == getRegistrations.accountInjections

\* C1: no two registerTrigger calls that resolve to the same (type, label)
\* both succeed: a call whose pair is already registered raises the
\* duplicate-label error, every successful call has an entry of its own, and
\* the trigger registry never lists a (type, label) twice.
C1_UniqueTriggerLabels ==
  /\ (lastCall.kind = "trigger" /\ lastCall.present) => lastCall.outcome = "DuplicateLabel"
  /\ (lastCall.kind = "trigger" /\ lastCall.outcome = "DuplicateLabel") => lastCall.present
  /\ Len(TriggerEntries) = okCount.trigger
  /\ \A i, j \in 1..Len(TriggerEntries) :
       (TriggerEntries[i].type = TriggerEntries[j].type
        /\ TriggerEntries[i].label = TriggerEntries[j].label) => i = j

\* A trigger registration was refused as a duplicate of an auto-assigned and
\* of an explicit label.
C1_Witness ==
  /\ lastCall.kind = "trigger"
  /\ lastCall.outcome = "DuplicateLabel"
  /\ Len(autoLabels) > 0
  /\ okCount.trigger = 2

\* C2: once hasInited is true every registerTrigger / registerCredential call
\* fails with the already-initialized error and hasInited stays true; so does
\* every call made after a dispatch request was served.
C2_ClosedRejects ==
  /\ [](lastCall.initedBefore => lastCall.outcome = "AlreadyInitialized")
  /\ [](lastCall.afterDispatch => lastCall.outcome = "AlreadyInitialized")
  /\ [][hasInited => hasInited']_vars

\* Calls of both kinds were rejected after a dispatch had been served.
C2_Witness ==
  /\ lastCall.afterDispatch
  /\ lastCall.outcome = "AlreadyInitialized"
  /\ hasInited

\* C3: the init state only moves Open -> ScheduledClose -> Closed; each flag
\* turns true once and is never reset, hasInited implies hasScheduledInit, and
\* at most one deferred transition is ever queued.
C3_InitMonotone ==
  /\ [](hasInited => hasScheduledInit)
  /\ [](microtasks + serverStarts <= 1)
  /\ [](hasScheduledInit <=> (microtasks + serverStarts = 1))
  /\ [][/\ hasScheduledInit => hasScheduledInit'
        /\ hasInited => hasInited'
        /\ (~hasInited /\ hasInited') => (hasScheduledInit /\ microtasks = 1 /\ microtasks' = 0)
        /\ microtasks' > microtasks => ~hasScheduledInit]_vars

\* Several registrations were made while ScheduledClose and the machine then
\* closed.
C3_Witness ==
  /\ hasInited
  /\ lastCall.n >= 3
  /\ ~lastCall.initedBefore

\* C4: Deno.serve is called exactly once, by the deferred transition that sets
\* hasInited, and no introspection or triggerEvent request is served while
\* hasInited is false.
C4_ServerStartsOnceWhenClosed ==
  /\ serverStarts <= 1
  /\ (serverStarts = 1) <=> hasInited
  /\ \A i \in 1..Len(requests) : requests[i].inited
  /\ lastRead.route # "none" => lastRead.inited

\* Requests of both kinds were served after three registrations.
C4_Witness ==
  /\ lastRead.route # "none"
  /\ \E i \in 1..Len(requests) : Done(i)
  /\ lastCall.n >= 3
  /\ serverStarts = 1

\* C5: every registration call made in the synchronous unit of the first
\* registration passes the init gate.
C5_SameUnitPassesGate ==
  (lastCall.kind # "none" /\ lastCall.inFirstUnit) =>
     (~lastCall.initedBefore /\ lastCall.outcome # "AlreadyInitialized")

\* Three calls were made in the unit of the first registration.
C5_Witness ==
  /\ lastCall.n >= 3
  /\ lastCall.inFirstUnit
  /\ lastCall.outcome = "ok"

\* C6: once a registration call has been made (the first one is made while
\* Open), the machine reaches Closed and the server has been started, also
\* when later calls of the unit fail with the duplicate-label error.
C6_EventuallyClosed == (lastCall.n > 0) ~> (hasInited /\ serverStarts > 0)

\* A call of the first unit failed as a duplicate and the machine closed.
C6_Witness ==
  /\ lastCall.outcome = "DuplicateLabel"
  /\ lastCall.inFirstUnit
  /\ hasInited
  /\ serverStarts > 0

\* C7: the labels issued to registrations without an explicit label are "0",
\* "1", "2", ... in call order, from one counter for both namespaces.
DecimalLabels == <<"0", "1", "2", "3", "4", "5", "6", "7", "8", "9">>
C7_AutoLabelsCount ==
  /\ Len(autoLabels) <= Len(DecimalLabels)
  /\ \A i \in 1..Len(autoLabels) : autoLabels[i] = DecimalLabels[i]

\* Trigger, trigger, credential received "0", "1", "2".
C7_Witness ==
  /\ autoLabels = <<"0", "1", "2">>
  /\ okCount = [trigger |-> 2, credential |-> 1]
  /\ lastCall.kind = "credential"
  /\ \E i \in 1..Len(CredentialEntries) : CredentialEntries[i].label = "2"
  /\ {TriggerEntries[i].label : i \in 1..Len(TriggerEntries)} = {"0", "1"}

\* The callbacks stored under (type, label)
StoredUnder(type, label) ==
  UNION {{byLabel[j].value.fn : j \in {k \in 1..Len(byLabel) : byLabel[k].key = label}} :
           byLabel \in {eventListenersByType[i].value :
                          i \in {k \in 1..Len(eventListenersByType) :
                                   eventListenersByType[k].key = type}}}

Dispatched(i) == requests[i].pc \in {"handler", "done"} /\ requests[i].body.ok
Registered(i) == StoredUnder(requests[i].body.type, requests[i].body.label) # {}
RECURSIVE SumCalls(_)
SumCalls(fns) ==
  IF fns = {} THEN 0
  ELSE LET fn == CHOOSE f \in fns : TRUE IN callCount[fn] + SumCalls(fns \ {fn})

\* C8: a triggerEvent request for a registered (type, label) invokes the
\* handler stored under that pair exactly once, with the request's data, and
\* no other handler; the handlers have run once per such request in total.
C8_DispatchInvokesStoredHandler ==
  /\ \A i \in 1..Len(requests) :
       IF Dispatched(i) /\ Registered(i)
         THEN /\ Len(requests[i].calls) = 1
              /\ {requests[i].calls[1].fn} =
                   StoredUnder(requests[i].body.type, requests[i].body.label)
              /\ requests[i].calls[1].data = requests[i].body.data
              /\ requests[i].fn = requests[i].calls[1].fn
         ELSE requests[i].calls = <<>>
  /\ \A fn \in Handlers :
       callCount[fn] = Cardinality({i \in 1..Len(requests) :
                          Dispatched(i) /\ StoredUnder(requests[i].body.type,
                                                       requests[i].body.label) = {fn}})
  /\ SumCalls(Handlers) =
       Cardinality({i \in 1..Len(requests) : Dispatched(i) /\ Registered(i)})

\* Two requests for different pairs of one type ran two different handlers,
\* with different data.
C8_Witness ==
  /\ Len(requests) = 2
  /\ Done(1) /\ Done(2)
  /\ SumCalls(Handlers) = 2
  /\ requests[1].calls # <<>> /\ requests[2].calls # <<>>
  /\ requests[1].calls[1].fn # requests[2].calls[1].fn
  /\ requests[1].calls[1].data # requests[2].calls[1].data
  /\ requests[1].body.type = requests[2].body.type

UnknownRequest(i) == Done(i) /\ requests[i].body.ok /\ ~Registered(i)
UnknownText(i) ==
  <<"Error: ", "Unknown trigger: ", requests[i].body.type, " ", requests[i].body.label>>
StartsWith(text, prefix) ==
  Len(text) >= Len(prefix) /\ SubSeq(text, 1, Len(prefix)) = prefix

\* C9 as stated: a request for an unregistered (type, label) fails with the
\* unknown-trigger error, invokes no handler and produces no log entries.
C9_UnknownTriggerNoLogs ==
  \A i \in 1..Len(requests) :
    UnknownRequest(i) =>
      /\ requests[i].error # Undefined
      /\ StartsWith(requests[i].error, UnknownText(i))
      /\ requests[i].calls = <<>>
      /\ requests[i].logs = <<>>

\* C9 amended: a request for an unregistered (type, label) fails with the
\* unknown-trigger error and invokes no handler; its logs hold no handler
\* output, only the one stderr entry that records the error.
C9_UnknownTriggerOnlyErrorEntry ==
  \A i \in 1..Len(requests) :
    UnknownRequest(i) =>
      /\ requests[i].error # Undefined
      /\ StartsWith(requests[i].error, UnknownText(i))
      /\ requests[i].calls = <<>>
      /\ Len(requests[i].logs) = 1
      /\ requests[i].logs[1].type = "stderr"
      /\ StartsWith(requests[i].logs[1].text, UnknownText(i))

\* {type: "nope", label: "0"} was answered by a program that has no trigger
\* of that type.
C9_Witness ==
  /\ eventListenersByType # EmptyMap
  /\ ~MapHas(eventListenersByType, "nope")
  /\ \E i \in 1..Len(requests) :
       UnknownRequest(i) /\ requests[i].body.type = "nope" /\ requests[i].body.label = "0"

\* The value a callback throws, if it ends by throwing, and the number of
\* console calls it makes before.
Throws(fn) == fn \in Handlers /\ Script(fn)[Len(Script(fn))].op = "throw"
Thrown(fn) == Script(fn)[Len(Script(fn))].value
Emitted(fn) == Cardinality({k \in 1..Len(Script(fn)) : Script(fn)[k].op = "console"})

\* C10: when the dispatched handler throws or rejects, the response's error
\* is set and holds the serialized error, and the logs end with a stderr
\* entry for that error, after every entry the handler emitted.
C10_HandlerErrorReported ==
  \A i \in 1..Len(requests) :
    (Done(i) /\ Throws(requests[i].fn)) =>
      LET logs == requests[i].logs
          stack == Thrown(requests[i].fn).v
      IN /\ requests[i].error # Undefined
         /\ StartsWith(requests[i].error, stack)
         /\ Len(logs) = Emitted(requests[i].fn) + 1
         /\ logs[Len(logs)].type = "stderr"
         /\ StartsWith(logs[Len(logs)].text, stack)
         /\ \A k \in 1..(Len(logs) - 1) : ~StartsWith(logs[k].text, stack)

\* A handler that logged, suspended, logged and then rejected was answered,
\* and so was one that threw at once.
C10_Witness ==
  /\ \E i \in 1..Len(requests) : Done(i) /\ requests[i].fn = "h2" /\ Len(requests[i].logs) = 3
  /\ \E i \in 1..Len(requests) : Done(i) /\ requests[i].fn = "h3"
\* What a well-formed request is answered with.
AnsweredInBand(i) ==
  /\ requests[i].status = 200
  /\ (requests[i].error # Undefined) <=> (Throws(requests[i].fn) \/ ~Registered(i))
  /\ requests[i].fn = "h1" =>
       /\ requests[i].error = Undefined
       /\ Len(requests[i].logs) = 1
       /\ requests[i].logs[1].type = "stdout"

\* C11: a triggerEvent request with a well-formed body is answered 200 with
\* {logs, error}, error being set exactly when the handler failed or the
\* trigger is unknown, and a handler that does not fail is answered with its
\* own log and no error; whatever dispatches failed before, the server stays
\* started and every request that waits for its dispatch or its resumption
\* can be run.
C11_HandlerFailureInBand ==
  /\ \A i \in 1..Len(requests) : (Done(i) /\ requests[i].body.ok) => AnsweredInBand(i)
  /\ Len(requests) > 0 => (serverStarts = 1 /\ hasInited)
  /\ (\E i \in 1..Len(requests) : ~Done(i)) => CallbackMayRun

\* A dispatch whose handler threw was answered, and a dispatch received after
\* it was answered without error.
C11_Witness ==
  /\ Len(requests) = 2
  /\ Done(1) /\ Throws(requests[1].fn) /\ requests[1].status = 200
  /\ requests[1].error # Undefined
  /\ Done(2) /\ requests[2].fn = "h1" /\ requests[2].error = Undefined
\* The entries of request j's logs that the runtime itself wrote for the
\* error of the dispatch.
RuntimeEntry(e) == e.src.by = NoContext /\ e.src.method = "logger"
InFlight(i) == requests[i].pc = "handler"

\* C12: the logs of a dispatch hold only entries emitted in that dispatch's
\* own dynamic extent (and the runtime's entry for its error), however the
\* dispatches interleave; no emission is in the logs of two dispatches.
C12_LogsIsolated ==
  /\ \A j \in 1..Len(requests) :
       \A k \in 1..Len(requests[j].logs) :
          LET e == requests[j].logs[k] IN
          \/ e.src.by = j
          \/ RuntimeEntry(e) /\ k = Len(requests[j].logs) /\ requests[j].error # Undefined
  /\ \A i, j \in 1..Len(requests) :
       i # j => \A k \in 1..Len(requests[i].logs), l \in 1..Len(requests[j].logs) :
                  requests[i].logs[k].src # requests[j].logs[l].src
                  \/ RuntimeEntry(requests[i].logs[k])

\* One dispatch emitted, was suspended, and emitted again after a second
\* dispatch had started, emitted and been suspended in turn.
C12_Witness ==
  /\ Len(requests) = 2
  /\ Done(1) /\ requests[1].fn = "h4" /\ Len(requests[1].logs) >= 2
  /\ InFlight(2) /\ Len(requests[2].logs) >= 1
\* The entries of request i's logs that were emitted in its dynamic extent,
\* and the number of emissions made there before the dispatch finished.
OwnEntries(i) == SelectSeq(requests[i].logs, LAMBDA e : e.src.by = i)
Captured(i) == IF Done(i) THEN requests[i].emitsAtExit ELSE requests[i].emits

\* C13: the logs of a dispatch list the emissions made in its dynamic extent
\* before it finished (those of work it started included), each once, in
\* emission order, before the runtime's own entry for a failure; every entry
\* carries the clock reading of its emission (not before the request
\* arrived, not decreasing along the logs) and a stream tag, stderr exactly
\* for console.error.
C13_LogsAreEmissionsInOrder ==
  \A i \in 1..Len(requests) :
    LET logs == requests[i].logs
        own == OwnEntries(i)
    IN /\ Len(own) = Captured(i)
       /\ SubSeq(logs, 1, Len(own)) = own
       /\ Len(logs) <= Len(own) + 1
       /\ \A k \in 1..Len(own) :
            /\ own[k].src.k = k
            /\ own[k].type \in {"stdout", "stderr"}
            /\ own[k].src.method # "logger" =>
                  (own[k].type = "stderr" <=> own[k].src.method = "error")
       /\ \A k \in 1..Len(logs) :
            /\ requests[i].at <= logs[k].timestamp
            /\ logs[k].timestamp <= now
            /\ k > 1 => logs[k - 1].timestamp <= logs[k].timestamp

\* A dispatch returned four entries, two of them from work it had started
\* and not awaited, emitted at different times.
C13_Witness ==
  \E i \in 1..Len(requests) :
    /\ Done(i)
    /\ Len(requests[i].logs) = 4
    /\ requests[i].logs[2].src.args = <<Str("late")>>
    /\ requests[i].logs[4].type = "stderr"
    /\ requests[i].logs[1].timestamp < requests[i].logs[4].timestamp
\* C14: when a dispatch has returned, by success or by failure, its
\* LogContext holds no buffer; the logs it returned never change afterwards,
\* and an emission made in its extent after the return (through console or
\* through the logger handle) is in no dispatch's logs.
C14_NoEntryAfterReturn ==
  /\ [](\A i \in 1..Len(requests) : Done(i) => ~requests[i].ctx)
  /\ [][\A i \in 1..Len(requests) : Done(i) => requests'[i].logs = requests[i].logs]_vars
  /\ [](\A i, j \in 1..Len(requests) :
          Done(i) => \A k \in 1..Len(requests[j].logs) :
                       requests[j].logs[k].src.by = i =>
                         requests[j].logs[k].src.k <= requests[i].emitsAtExit)

\* Work left behind by a dispatch that had returned emitted through console
\* and through the logger while a later dispatch was suspended.
C14_Witness ==
  \E i, j \in 1..Len(requests) :
    /\ Done(i) /\ requests[i].stray = <<>>
    /\ requests[i].emits = requests[i].emitsAtExit + 2
    /\ InFlight(j) /\ requests[j].ctx /\ requests[j].logs # <<>>
\* The console calls made in the extent of the requests up to request i, and
\* the errors the runtime itself reported through logger.error.
RECURSIVE EmissionsUpTo(_)
EmissionsUpTo(i) == IF i = 0 THEN 0 ELSE requests[i].emits + EmissionsUpTo(i - 1)
ReportedErrors ==
  Cardinality({i \in 1..Len(requests) :
                 Done(i) /\ requests[i].body.ok /\ requests[i].error # Undefined})

\* C15: a console call made outside every logging context changes no
\* request's logs and calls the original console method with the same
\* arguments; no entry of any logs comes from such a call; and every console
\* call, inside a context or outside, has reached the original console.
C15_OutsideNotCapturedAllPassThrough ==
  /\ [][originalConsole'.outside > originalConsole.outside =>
          /\ requests' = requests
          /\ originalConsole'.n = originalConsole.n + 1
          /\ [method |-> originalConsole'.method, args |-> originalConsole'.args]
               \in OutsideCalls]_vars
  /\ [](\A j \in 1..Len(requests) : \A k \in 1..Len(requests[j].logs) :
          requests[j].logs[k].src.by = NoContext => RuntimeEntry(requests[j].logs[k]))
  /\ [](originalConsole.n =
          originalConsole.outside + EmissionsUpTo(Len(requests)) + ReportedErrors)

\* console.error("oops") was called outside every context while a dispatch
\* that had already logged was suspended.
C15_Witness ==
  /\ originalConsole.outside = 1
  /\ originalConsole.method = "error"
  /\ originalConsole.args = <<Str("oops")>>
  /\ \E i \in 1..Len(requests) : InFlight(i) /\ requests[i].ctx /\ requests[i].logs # <<>>
\* The serializations of the arguments joined by single spaces.
SpaceJoined(args) ==
  JoinFrom([i \in 1..Len(args) |-> serializeValueAllowPlainStrings(args[i])], 1, " ")

\* C16: the text of every entry captured from a console call is the
\* serializations of the call's arguments joined by single spaces, followed
\* by exactly one newline.
C16_TextEndsWithOneNewline ==
  \A i \in 1..Len(requests) : \A k \in 1..Len(requests[i].logs) :
    LET e == requests[i].logs[k] IN
    ~RuntimeEntry(e) => e.text = SpaceJoined(e.src.args) \o <<NL>>
\* C17: a get() called before the process has received any triggerEvent
\* request fails with the not-yet-ready error, and no outbound request has
\* been made by then.
C17_NotReadyBeforeFirstRequest ==
  /\ (lastGet.n > 0 /\ lastGet.received = 0) =>
        /\ lastGet.outcome = "NotYetReady"
        /\ lastGet.request = NoFetch
        /\ lastGet.sent = 0
  /\ Len(requests) = 0 => (lastGet.sent = 0 /\ Falsy(glueDeploymentId) /\ Falsy(glueAuthHeader))

\* The second fetcher was called after the server had started and before
\* any request, for the second time.
C17_Witness ==
  /\ lastGet.n = 2
  /\ lastGet.fetcher = 2
  /\ lastGet.received = 0
  /\ lastGet.outcome = "NotYetReady"
  /\ hasInited /\ serverStarts = 1
  /\ Len(requests) = 0
\* C18: the deployment id and the authorization header of the outbound
\* request of a get() made in a handler are those of the triggerEvent
\* request that invoked the handler.
C18_FetchAttributedToOwnRequest ==
  /\ (lastGet.by # NoContext /\ lastGet.outcome = "fetched") =>
        /\ lastGet.request.dep = requests[lastGet.by].headers.dep
        /\ lastGet.request.auth = requests[lastGet.by].headers.auth
  /\ \A i \in 1..Len(requests) : \A k \in 1..Len(requests[i].fetches) :
        /\ requests[i].fetches[k].dep = requests[i].headers.dep
        /\ requests[i].fetches[k].auth = requests[i].headers.auth

\* C19: a get() made while no handler invocation is in progress (no request
\* received yet, or every request received already answered) fails with the
\* not-yet-ready error and makes no outbound request.
C19_NoFetchOutsideHandlers ==
  (lastGet.n > 0 /\ lastGet.by = NoContext /\ lastGet.running = {} /\ lastGet.idle) =>
     (lastGet.outcome = "NotYetReady" /\ lastGet.request = NoFetch)
\* The entries getRegistrations lists for the credential registered with
\* config <<"cred", k>>, the registration that returned fetcher k.
ListedFor(k) ==
  {j \in 1..Len(CredentialEntries) : CredentialEntries[j].config = <<"cred", k>>}
KeyOf(x) == [type |-> x.type, label |-> x.label]

\* C20: every outbound request of a fetcher carries the (type, label) under
\* which that fetcher's registration is listed by getRegistrations (its
\* auto-assigned label included), which is the pair of no other fetcher,
\* whichever fetchers are called, in whatever order, in handlers or outside.
C20_FetchKeyedByOwnRegistration ==
  /\ Len(fetchers) = Len(CredentialEntries)
  /\ \A k \in 1..Len(fetchers) :
       /\ Cardinality(ListedFor(k)) = 1
       /\ \A j \in ListedFor(k) : KeyOf(CredentialEntries[j]) = fetchers[k]
       /\ fetchers[k].label \in {autoLabels[a] : a \in 1..Len(autoLabels)}
       /\ \A l \in 1..Len(fetchers) : fetchers[l] = fetchers[k] => l = k
  /\ lastGet.outcome = "fetched" =>
       /\ lastGet.fetcher \in 1..Len(fetchers)
       /\ \A j \in ListedFor(lastGet.fetcher) :
            KeyOf(CredentialEntries[j]) = KeyOf(lastGet.request)
       /\ \A l \in 1..Len(fetchers) :
            l # lastGet.fetcher => fetchers[l] # KeyOf(lastGet.request)
  /\ \A i \in 1..Len(requests) : \A m \in 1..Len(requests[i].fetches) :
       \A j \in ListedFor(m) : KeyOf(CredentialEntries[j]) = KeyOf(requests[i].fetches[m])

\* A handler fetched with its second fetcher, registered third with the
\* auto-assigned label "2", after a call that had failed as not ready.
C20_Witness ==
  /\ lastGet.outcome = "fetched"
  /\ lastGet.by # NoContext
  /\ lastGet.fetcher = 2
  /\ lastGet.request.type = "slack" /\ lastGet.request.label = "2"
  /\ lastGet.n > lastGet.sent
  /\ \E i \in 1..Len(requests) : Len(requests[i].fetches) = 2
\* What is bound when GLUE_DEV_PORT is "7", "0", empty or absent, as claimed.
ClaimedPort == [p \in {"7", "0", "", Undefined} |-> IF p = "7" THEN 7 ELSE 0]

TetherEnabled == ~Falsy(env.GLUE_DEV_PORT) /\ ~Falsy(env.GLUE_CLI_WS_ADDR)
Exited == exitCode # NoExit

\* C26: the lifeline is connected exactly when the tether is enabled, once,
\* and only after Deno.serve was called; when its connection closes or errors
\* the process exits with a non-zero code, it is never connected again and
\* nothing runs afterwards; and the process exits for no other reason, so
\* never when the tether is not enabled.
C26_TetherFailFast ==
  /\ [](lifeline.opened <= 1)
  /\ [](hasInited => (lifeline.opened = 1 <=> TetherEnabled))
  /\ [](lifeline.opened > 0 => (lifeline.serverStarts >= 1 /\ serverStarts >= 1))
  /\ [](lifeline.state \in {"closed", "errored"} => (Exited /\ exitCode # 0))
  /\ [](Exited => (TetherEnabled /\ lifeline.state \in {"closed", "errored"}))
  /\ [][Exited => UNCHANGED vars]_vars

\* The lifeline's connection failed after a dispatch had been answered, and
\* the process exited with code 5.
C26_Witness ==
  /\ lifeline.state = "errored"
  /\ exitCode = 5
  /\ originalConsole.args = <<Err(<<"connection refused">>)>>
  /\ \E i \in 1..Len(requests) : Done(i)
\* The text every credential-fetch error starts with, and the handlers that
\* catch what get() rejects with.
FetchErrorText(res) ==
  <<"Error: ", "Failed to fetch account injection: ", String(res.status), " ", res.statusText>>
Catches(fn) == fn \in Handlers /\ \E k \in 1..Len(Script(fn)) : Script(fn)[k].op = "tryget"

\* C21: a get() answered with a non-success status rejects with the
\* credential-fetch error, which names the status, and one answered with
\* success and a JSON body resolves to the parsed body as it is; the dispatch
\* of a handler that does not catch the rejection reports that error, and
\* the dispatch of a handler that catches it is answered without error and
\* with what the handler logged afterwards.
C21_FetchOutcomeReachesHandler ==
  \A i \in 1..Len(requests) :
    /\ \A k \in 1..Len(requests[i].settled) :
         LET s == requests[i].settled[k] IN
         /\ ~s.response.ok =>
               (s.threw /\ StartsWith(s.value.v, FetchErrorText(s.response)))
         /\ (s.response.ok /\ s.response.body.t = "json") =>
               (~s.threw /\ s.value = s.response.body.v)
         /\ (s.threw /\ Done(i) /\ ~Catches(requests[i].fn)) =>
               /\ requests[i].error # Undefined
               /\ StartsWith(requests[i].error, s.value.v)
               /\ requests[i].caught = <<>>
         /\ (s.threw /\ Catches(requests[i].fn)) => requests[i].caught = <<s.value>>
    /\ (Done(i) /\ Catches(requests[i].fn)) =>
         /\ requests[i].status = 200
         /\ requests[i].error = Undefined
         /\ Len(requests[i].logs) = 1
         /\ requests[i].logs[1].src.args = <<Str("going on")>>

\* A handler caught the rejection of a get() answered 404 and its dispatch
\* was answered without error; another dispatch received the credential.
C21_Witness ==
  /\ \E i \in 1..Len(requests) :
       /\ Done(i) /\ requests[i].fn = "h6" /\ requests[i].error = Undefined
       /\ Len(requests[i].caught) = 1
       /\ requests[i].settled[1].response.status = 404
  /\ \E i \in 1..Len(requests) :
       /\ Done(i) /\ requests[i].fn = "h7" /\ requests[i].error = Undefined
       /\ requests[i].settled[1].value = ApiKeyCredential("k1")
\* C27: a triggerEvent request whose body violates the schema is answered
\* with a request-level failure (500, no {logs, error}), invokes no handler
\* and captures nothing; the server stays started and able to run every
\* request that waits, and each well-formed request received after it is
\* answered in band, by its handler invoked once when it has one.
C27_MalformedFailsOnlyItsRequest ==
  \A i \in 1..Len(requests) :
    (Done(i) /\ ~requests[i].body.ok) =>
      /\ requests[i].status = 500
      /\ requests[i].calls = <<>>
      /\ requests[i].fn = NoListener.fn
      /\ requests[i].logs = <<>> /\ requests[i].emits = 0
      /\ requests[i].error = Undefined
      /\ serverStarts = 1 /\ hasInited
      /\ (\E j \in 1..Len(requests) : ~Done(j)) => CallbackMayRun
      /\ SumCalls(Handlers) =
           Cardinality({j \in 1..Len(requests) : Dispatched(j) /\ Registered(j)})
      /\ \A j \in (i + 1)..Len(requests) :
           (Done(j) /\ requests[j].body.ok) =>
             /\ AnsweredInBand(j)
             /\ Registered(j) => Len(requests[j].calls) = 1

\* A malformed request was answered 500 and the dispatch received after it
\* ran its handler and was answered with the handler's log.
C27_Witness ==
  /\ Len(requests) = 2
  /\ Done(1) /\ ~requests[1].body.ok /\ requests[1].status = 500
  /\ Done(2) /\ requests[2].fn = "h1" /\ requests[2].status = 200
  /\ Len(requests[2].logs) = 1 /\ requests[2].error = Undefined
\* The handlers whose registration call is not in a try, and the entry the
\* runtime writes for the already-initialized error.
AlreadyInitializedText == AlreadyInitializedError.v
Reregisters(fn) ==
  fn \in Handlers /\ \E k \in 1..Len(Script(fn)) : Script(fn)[k].op = "register"

\* C28: every registration call a handler makes during its dispatch fails
\* with the already-initialized error; when the handler does not catch it
\* the response carries that error and the logs end with a stderr entry for
\* it, after what the handler logged before the call; and from the first
\* request on no step changes the registries, the auto-label counter or the
\* init flags.
C28_RegisterInHandlerRejected ==
  /\ [](\A i \in 1..Len(requests) :
          /\ \A k \in 1..Len(requests[i].regs) : requests[i].regs[k] = "AlreadyInitialized"
          /\ \A k \in 1..Len(requests[i].caught) :
                requests[i].caught[k] = AlreadyInitializedError
          /\ (Done(i) /\ Reregisters(requests[i].fn)) =>
                LET logs == requests[i].logs IN
                /\ requests[i].status = 200
                /\ requests[i].error # Undefined
                /\ StartsWith(requests[i].error, AlreadyInitializedText)
                /\ Len(logs) = 2
                /\ logs[1].src.by = i /\ logs[1].type = "stdout"
                /\ logs[2].type = "stderr"
                /\ StartsWith(logs[2].text, AlreadyInitializedText))
  /\ [][Len(requests) > 0 =>
          /\ UNCHANGED <<eventListenersByType, accountInjectionsByType, nextAutomaticLabel>>
          /\ UNCHANGED <<hasScheduledInit, hasInited, microtasks, serverStarts>>]_vars

\* One handler's registration call was reported by its dispatch, another
\* handler caught its first and was reported for its second, and the
\* registry still lists the two triggers of the top level.
C28_Witness ==
  /\ \E i \in 1..Len(requests) :
       Done(i) /\ requests[i].fn = "h8" /\ requests[i].regs = <<"AlreadyInitialized">>
  /\ \E i \in 1..Len(requests) :
       /\ Done(i) /\ requests[i].fn = "h9" /\ Len(requests[i].regs) = 2
       /\ Len(requests[i].caught) = 1 /\ requests[i].error # Undefined
  /\ Len(TriggerEntries) = 2 /\ CredentialEntries = <<>>
  /\ nextAutomaticLabel = 2
\* C23: once hasInited is true no step (an introspection request, a
\* dispatch that succeeds or fails, a credential fetch and its answer, a
\* registration call, which is rejected) changes the trigger registry, the
\* credential registry or the auto-label counter, and every answer of the
\* introspection routes is the content the registries had when the machine
\* closed.
C23_RegistryFrozenAfterClosed ==
  /\ [][hasInited =>
          UNCHANGED <<eventListenersByType, accountInjectionsByType, nextAutomaticLabel>>]_vars
  /\ [](lastCall.initedBefore => lastCall.outcome = "AlreadyInitialized")
  /\ [](lastRead.route = "getRegistrations" => lastRead.body = getRegistrations)
  /\ [](lastRead.route = "getRegisteredTriggers" => lastRead.body.array = TriggerEntries)
  /\ [][(lastRead.route = "getRegistrations" /\ lastRead'.route = "getRegistrations")
          => lastRead'.body = lastRead.body]_vars

\* After a dispatch that failed, a dispatch that fetched a credential and
\* succeeded, and a rejected registration call, getRegistrations answered
\* with the three registrations of the top level.
C23_Witness ==
  /\ lastRead.route = "getRegistrations"
  /\ Len(lastRead.body.triggers) = 2 /\ Len(lastRead.body.accountInjections) = 1
  /\ lastCall.outcome = "AlreadyInitialized"
  /\ \E i \in 1..Len(requests) : Done(i) /\ requests[i].error # Undefined
  /\ \E i \in 1..Len(requests) :
       Done(i) /\ requests[i].error = Undefined /\ requests[i].settled # <<>>
\* What the successful registration calls of one namespace registered, and
\* the entries of a list as a set.
RegisteredAs(kind) ==
  {[type |-> r.type, label |-> r.label, config |-> r.config] :
     r \in {registered[k] : k \in {n \in 1..Len(registered) : registered[n].kind = kind}}}
Listed(entries) == {entries[k] : k \in 1..Len(entries)}
\* The step leaves the latest answer of the introspection routes as it was.
SameRead ==
  /\ lastRead'.route = lastRead.route
  /\ lastRead'.inited = lastRead.inited
  /\ lastRead'.body = lastRead.body

\* C24: getRegistrations lists exactly one {type, label, config} entry for
\* every successful trigger registration and one for every successful
\* credential registration, with the config of the call, and nothing for a
\* call that failed; getRegisteredTriggers answers the triggers part of it;
\* and a step that answers an introspection request changes nothing else.
C24_GetRegistrationsListsSuccessful ==
  /\ [](/\ Listed(TriggerEntries) = RegisteredAs("trigger")
        /\ Listed(CredentialEntries) = RegisteredAs("credential")
        /\ Len(TriggerEntries) = okCount.trigger
        /\ Len(CredentialEntries) = okCount.credential)
  /\ [](lastRead.route = "getRegistrations" =>
          /\ Listed(lastRead.body.triggers) = RegisteredAs("trigger")
          /\ Listed(lastRead.body.accountInjections) = RegisteredAs("credential")
          /\ Len(lastRead.body.triggers) = okCount.trigger
          /\ Len(lastRead.body.accountInjections) = okCount.credential)
  /\ [](lastRead.route = "getRegisteredTriggers" =>
          /\ Listed(lastRead.body.array) = RegisteredAs("trigger")
          /\ Len(lastRead.body.array) = okCount.trigger)
  /\ [][~SameRead =>
          UNCHANGED <<registryVars, initVars, headerVars, inSync, requests, callCount,
                      callVars, logVars, fetchVars, serveVars>>]_vars

\* getRegistrations answered with one trigger and one credential after a
\* third registration call had failed as a duplicate.
C24_Witness ==
  /\ lastRead.route = "getRegistrations"
  /\ Len(lastRead.body.triggers) = 1 /\ Len(lastRead.body.accountInjections) = 1
  /\ lastCall.n = 3 /\ lastCall.outcome = "DuplicateLabel"
\* The request names a pair that is registered as a credential.
CredentialPair(i) ==
  HasEntry(accountInjectionsByType, requests[i].body.type, requests[i].body.label)

\* C25: a registration call fails as a duplicate exactly when its own
\* namespace already holds its (type, label), whatever the other namespace
\* holds: a credential under a pair that a trigger uses, and a trigger under
\* a pair that a credential uses, succeed, a second credential under a pair
\* fails; each registry lists a pair once; and a triggerEvent request for a
\* pair that only a credential has is answered as an unknown trigger, with
\* no handler invoked.
C25_SeparateNamespaces ==
  /\ (lastCall.kind # "none" /\ ~lastCall.initedBefore) =>
        (lastCall.outcome = "DuplicateLabel" <=> lastCall.present)
  /\ (lastCall.inOther /\ ~lastCall.present) => lastCall.outcome = "ok"
  /\ Len(TriggerEntries) = okCount.trigger
  /\ Len(CredentialEntries) = okCount.credential
  /\ \A i, j \in 1..Len(CredentialEntries) :
       KeyOf(CredentialEntries[i]) = KeyOf(CredentialEntries[j]) => i = j
  /\ \A i \in 1..Len(requests) :
       (Done(i) /\ CredentialPair(i) /\ ~Registered(i)) =>
          /\ requests[i].calls = <<>>
          /\ requests[i].error # Undefined
          /\ StartsWith(requests[i].error, UnknownText(i))

\* A trigger and a credential are both registered under (webhook, "a"),
\* and a request for (cron, "a"), which only a credential has, was answered
\* as an unknown trigger while the request for (webhook, "a") ran its
\* handler.
C25_Witness ==
  /\ HasEntry(eventListenersByType, "webhook", "a")
  /\ HasEntry(accountInjectionsByType, "webhook", "a")
  /\ HasEntry(accountInjectionsByType, "cron", "a")
  /\ \E i \in 1..Len(requests) :
       /\ Done(i) /\ requests[i].body.type = "cron" /\ CredentialPair(i)
       /\ requests[i].error # Undefined
  /\ \E i \in 1..Len(requests) :
       Done(i) /\ requests[i].body.type = "webhook" /\ requests[i].fn = "h1"

\* A second credential registration under (webhook, "a") has failed while a
\* trigger holds the same pair.
C25_DuplicateCredentialReached ==
  /\ lastCall.kind = "credential" /\ lastCall.outcome = "DuplicateLabel"
  /\ lastCall.inOther
\* The handler of request i has returned or thrown.
HandlerSettled(i) ==
  /\ requests[i].awaiting = "none"
  /\ \/ requests[i].error # Undefined
     \/ requests[i].ip = Len(Script(requests[i].fn)) + 1

\* Request i has been received and answered.
Answered(i) == i <= Len(requests) /\ requests[i].pc = "done"

\* C29: a request whose handler was invoked is answered only when that
\* handler has returned or thrown, while every other request keeps the
\* state it has; and when ready callbacks are run and fetches are answered,
\* every request received is answered.
C29_ResponseAfterOwnHandler ==
  /\ [](\A i \in 1..Len(requests) :
          (Done(i) /\ requests[i].calls # <<>>) => HandlerSettled(i))
  /\ [][\A i \in 1..Len(requests) :
          (InFlight(i) /\ requests'[i] # requests[i]) =>
             \A j \in 1..Len(requests) : j # i => requests'[j] = requests[j]]_vars
  /\ \A i \in 1..MaxRequests : (i <= Len(requests)) ~> Answered(i)

\* The handler of the first request is suspended on its fetch while the
\* second request, received later, has run its handler to the end and has
\* its response.
C29_Witness ==
  /\ Len(requests) = 2
  /\ InFlight(1) /\ requests[1].awaiting = "fetch"
  /\ Done(2) /\ requests[2].status = 200 /\ requests[2].calls # <<>>
  /\ requests[2].error = Undefined /\ HandlerSettled(2)
\* The headers of the triggerEvent request received last, undefined before
\* the first one.
LatestHeaders ==
  IF Len(requests) = 0 THEN [dep |-> Undefined, auth |-> Undefined]
                       ELSE requests[Len(requests)].headers

\* C30: glueDeploymentId and glueAuthHeader are the two header values of
\* the triggerEvent request received last, a missing header being
\* undefined, and undefined before the first request; a step that changes
\* either of them is the receipt of a triggerEvent request.
C30_HeadersLastRequestWins ==
  /\ [](/\ glueDeploymentId = LatestHeaders.dep
        /\ glueAuthHeader = LatestHeaders.auth)
  /\ [][(glueDeploymentId' # glueDeploymentId \/ glueAuthHeader' # glueAuthHeader) =>
          /\ Len(requests') = Len(requests) + 1
          /\ \A i \in 1..Len(requests) : requests'[i] = requests[i]]_vars

\* A request without the glue headers was received after one of deployment
\* d1 whose handler had fetched a credential and was answered, and after an
\* introspection request: the two variables are undefined again.
C30_Witness ==
  /\ Len(requests) = 2
  /\ requests[1].headers.dep = "d1" /\ requests[2].headers.dep = Undefined
  /\ Done(1) /\ requests[1].fetches # <<>>
  /\ lastRead.route = "getRegistrations"
  /\ glueDeploymentId = Undefined /\ glueAuthHeader = Undefined
\* Request i is answered without a handler: its body is malformed or it
\* names a trigger that is not registered.
NoHandlerFor(i) ==
  \/ TriggerEventParse(requests[i].body).threw
  \/ lookupListener(requests[i].body.type, requests[i].body.label) = NoListener

\* C31: the outbound request of every get() carries the deployment id and
\* the authorization header of the triggerEvent request received last
\* before the call, also when that request is malformed or names an unknown
\* trigger and the call is made by the handler of an earlier request; and
\* the two variables hold the headers of a received request before it is
\* parsed.
C31_InvalidRequestOverwritesHeaders ==
  /\ (lastGet.outcome = "fetched" /\ lastGet.received > 0) =>
        /\ lastGet.request.dep = requests[lastGet.received].headers.dep
        /\ lastGet.request.auth = requests[lastGet.received].headers.auth
  /\ (Len(requests) > 0 /\ requests[Len(requests)].pc = "json") =>
        /\ glueDeploymentId = requests[Len(requests)].headers.dep
        /\ glueAuthHeader = requests[Len(requests)].headers.auth

\* The handler of request 1, of deployment d1, made its second fetch with
\* the headers of the malformed request 2 of deployment d2, which was
\* received while the handler was suspended and has been answered 500.
C31_Witness ==
  /\ Len(requests) = 2
  /\ requests[1].headers.dep = "d1" /\ requests[2].headers.dep = "d2"
  /\ requests[2].body = Malformed /\ Done(2) /\ requests[2].status = 500
  /\ lastGet.by = 1 /\ lastGet.received = 2 /\ lastGet.outcome = "fetched"
  /\ Len(requests[1].fetches) = 2
  /\ requests[1].fetches[1].dep = "d1"
  /\ lastGet.request.dep = "d2" /\ lastGet.request.auth = "a2"

\* The same with a request 2 that names an unknown trigger.
C31_UnknownTriggerReached ==
  /\ Len(requests) = 2
  /\ requests[1].headers.dep = "d1" /\ requests[2].headers.dep = "d2"
  /\ requests[2].body.type = "nope" /\ NoHandlerFor(2)
  /\ lastGet.by = 1 /\ lastGet.received = 2 /\ lastGet.outcome = "fetched"
  /\ lastGet.request.dep = "d2"
\* The headers of the triggerEvent request received last before the latest
\* call of get(), undefined when there was none.
HeadersAtGet ==
  IF lastGet.received = 0 THEN [dep |-> Undefined, auth |-> Undefined]
                          ELSE requests[lastGet.received].headers

RejectedCallStep ==
  /\ hasInited
  /\ lastCall' # lastCall
  /\ lastCall'.outcome = "AlreadyInitialized"

\* C33: a registration call that is rejected because the machine has
\* closed, of a trigger or of a credential, with an explicit label or
\* without one, leaves the trigger registry, the credential registry, the
\* auto-label counter, hasScheduledInit and hasInited as they were, queues
\* no microtask and returns no fetcher; and while the machine is closed the
\* counter and the registries change in no step.
C33_RejectedCallChangesNothing ==
  /\ [][RejectedCallStep =>
          UNCHANGED <<eventListenersByType, accountInjectionsByType, nextAutomaticLabel,
                      hasScheduledInit, hasInited, microtasks, serverStarts, fetchers,
                      autoLabels, okCount, registered>>]_vars
  /\ [][hasInited =>
          UNCHANGED <<eventListenersByType, accountInjectionsByType, nextAutomaticLabel,
                      hasScheduledInit, hasInited>>]_vars

\* A credential registration without a label was rejected in a callback
\* that ran after a dispatch was answered, the program having registered
\* two entries while open.
C33_Witness ==
  /\ lastCall.outcome = "AlreadyInitialized" /\ lastCall.kind = "credential"
  /\ lastCall.afterDispatch /\ inSync /\ hasInited
  /\ lastCall.n = 2 /\ nextAutomaticLabel = 2
  /\ Len(autoLabels) = 2
\* The step is a registration call that failed as a duplicate.
DuplicateCallStep ==
  /\ lastCall'.n = lastCall.n + 1
  /\ lastCall'.outcome = "DuplicateLabel"

\* The entry the registry of its kind holds for a successful registration.
StoredFor(r) ==
  IF r.kind = "trigger"
    THEN lookupListener(r.type, r.label)
    ELSE MapGet(MapGet(accountInjectionsByType, r.type), r.label)

\* C34: a registration call that fails as a duplicate leaves both
\* registries, and so the listing, as they were and returns no fetcher;
\* every (type, label) holds the handler and the config of the first call
\* that registered it; and a dispatch invokes that handler.
C34_DuplicateLeavesEntryIntact ==
  /\ [][DuplicateCallStep =>
          /\ UNCHANGED <<eventListenersByType, accountInjectionsByType, fetchers,
                         registered, okCount>>
          /\ getRegistrations' = getRegistrations]_vars
  /\ [](\A k \in 1..Len(registered) :
          /\ HasEntry(IF registered[k].kind = "trigger" THEN eventListenersByType
                                                        ELSE accountInjectionsByType,
                      registered[k].type, registered[k].label)
          /\ StoredFor(registered[k]).config = registered[k].config
          /\ registered[k].kind = "trigger" =>
                StoredFor(registered[k]).fn = registered[k].fn
          /\ \A j \in 1..Len(registered) :
                (/\ registered[j].kind = registered[k].kind
                 /\ registered[j].type = registered[k].type
                 /\ registered[j].label = registered[k].label) => j = k)
  /\ [](\A i \in 1..Len(requests) :
          (Done(i) /\ requests[i].calls # <<>>) =>
             \E k \in 1..Len(registered) :
                /\ registered[k].kind = "trigger"
                /\ registered[k].type = requests[i].body.type
                /\ registered[k].label = requests[i].body.label
                /\ registered[k].fn = requests[i].fn
                /\ \A c \in 1..Len(requests[i].calls) :
                      requests[i].calls[c].fn = registered[k].fn)

\* Handler h1 was registered under (webhook, "a") with cfgA, the
\* registration of h3 with cfgB under the same pair failed, and a request
\* for the pair invoked h1 and never h3; the listing shows cfgA.
C34_Witness ==
  /\ lastCall.n = 2 /\ lastCall.kind = "trigger" /\ lastCall.outcome = "DuplicateLabel"
  /\ Len(registered) = 1 /\ registered[1].fn = "h1"
  /\ TriggerEntries = <<[type |-> "webhook", label |-> "a", config |-> "cfgA"]>>
  /\ \E i \in 1..Len(requests) : Done(i) /\ requests[i].fn = "h1"
  /\ callCount["h1"] = 1 /\ callCount["h3"] = 0

\* The same for a credential: the second registration under (webhook,
\* "a") failed and the first config is listed.
C34_CredentialDuplicateReached ==
  /\ lastCall.kind = "credential" /\ lastCall.outcome = "DuplicateLabel"
  /\ CredentialEntries = <<[type |-> "webhook", label |-> "a", config |-> "cfgB"]>>
  /\ Len(fetchers) = 1
\* The step is a registration call that passed the init gate: the call
\* CounterProgram[lastCall'.n].
GatePassedStep == lastCall'.n = lastCall.n + 1

\* The unlabelled calls among the first n calls of the program.
Unlabelled(n) == {k \in 1..n : CounterProgram[k].label = NoLabel}

\* C35: a registration call that passes the init gate advances
\* nextAutomaticLabel by one when it has no explicit label, also when it
\* then fails because the label it was given is taken by an explicit label
\* of the type, and leaves the counter when it has an explicit label; no
\* other step changes the counter, which is the number of unlabelled calls
\* that passed the gate.
C35_CounterCountsUnlabelledCalls ==
  /\ [](nextAutomaticLabel = Cardinality(Unlabelled(lastCall.n)))
  /\ [](nextAutomaticLabel = Len(autoLabels))
  /\ [][GatePassedStep =>
          nextAutomaticLabel' = nextAutomaticLabel +
             (IF CounterProgram[lastCall'.n].label = NoLabel THEN 1 ELSE 0)]_vars
  /\ [][nextAutomaticLabel' # nextAutomaticLabel => GatePassedStep]_vars

\* The call with the explicit label "0" left the counter at 0, and the
\* unlabelled call of the same type that followed was given "0", failed as
\* a duplicate and advanced the counter to 1.
C35_Witness ==
  /\ lastCall.n = 2 /\ lastCall.outcome = "DuplicateLabel"
  /\ CounterProgram[1].label = "0" /\ CounterProgram[2].label = NoLabel
  /\ autoLabels = <<"0">> /\ nextAutomaticLabel = 1
  /\ Len(registered) = 1 /\ registered[1].label = "0"
\* The entries of the logs of request i that runInLoggingContext pushed
\* itself, and the number of entries the handler emitted.
RuntimeEntries(i) ==
  {k \in 1..Len(requests[i].logs) : requests[i].logs[k].src.by = NoContext}
HandlerEntries(i) == IF requests[i].calls = <<>> THEN 0 ELSE Emitted(requests[i].fn)

\* C36: a dispatch fails exactly when its handler throws or rejects or the
\* trigger is unknown; the logs of a failed dispatch hold one entry of the
\* runtime, the last one, of type stderr, whose text is the error string of
\* the response followed by one newline, after the entries the handler
\* emitted; the response of a dispatch that succeeds has no error and its
\* logs hold the entries the handler emitted and no other.
C36_ErrorLoggedOnceLast ==
  \A i \in 1..Len(requests) :
    (Done(i) /\ requests[i].body.ok) =>
      LET logs == requests[i].logs IN
      /\ (requests[i].error # Undefined) <=> (Throws(requests[i].fn) \/ ~Registered(i))
      /\ requests[i].error # Undefined =>
            /\ RuntimeEntries(i) = {Len(logs)}
            /\ Len(logs) = HandlerEntries(i) + 1
            /\ logs[Len(logs)].type = "stderr"
            /\ logs[Len(logs)].text = requests[i].error \o <<NL>>
      /\ requests[i].error = Undefined =>
            /\ RuntimeEntries(i) = {}
            /\ Len(logs) = HandlerEntries(i)

\* A handler that logged twice and then rejected was answered with three
\* entries, and a request for an unknown trigger with one.
C36_Witness ==
  /\ \E i \in 1..Len(requests) :
       /\ Done(i) /\ requests[i].fn = "h2" /\ Len(requests[i].logs) = 3
       /\ requests[i].logs[3].text = requests[i].error \o <<NL>>
  /\ \E i \in 1..Len(requests) :
       /\ UnknownRequest(i) /\ Len(requests[i].logs) = 1
       /\ requests[i].logs[1].text = requests[i].error \o <<NL>>

\* A handler that threw at once and a handler that returned were answered.
C36_ThrowAndSuccessReached ==
  /\ \E i \in 1..Len(requests) :
       Done(i) /\ requests[i].fn = "h3" /\ Len(requests[i].logs) = 1
  /\ \E i \in 1..Len(requests) :
       Done(i) /\ requests[i].fn = "h1" /\ requests[i].error = Undefined
\* The console methods that patchConsoleGlobal replaces.
regularConsoleMethods == {"log", "error", "warn", "info", "debug", "table"}

\* Entry e is the line of a console.timeEnd call.
TimeEndLine(e) == e.src.args # <<>> /\ e.src.args[1].t = "template"

\* The methods whose entries the logs of request i hold.
MethodsLogged(i) ==
  {requests[i].logs[k].src.method : k \in 1..Len(requests[i].logs)}

\* C37: an entry captured from a console method is tagged stderr when the
\* method is console.error and stdout when it is console.log, warn, info,
\* debug or table, whatever its arguments and whatever was emitted before;
\* the line of console.timeEnd, for a timer that exists and for one that
\* does not, is tagged stdout.
C37_StreamByMethod ==
  \A i \in 1..Len(requests) : \A k \in 1..Len(requests[i].logs) :
    LET e == requests[i].logs[k] IN
    /\ e.type \in {"stdout", "stderr"}
    /\ e.src.method \in regularConsoleMethods =>
          (e.type = "stderr" <=> e.src.method = "error")
    /\ TimeEndLine(e) => e.type = "stdout"

\* A dispatch was answered with entries of all six methods and the two
\* lines of console.timeEnd, the duration line and the warning for the
\* timer that no longer exists.
C37_Witness ==
  \E i \in 1..Len(requests) :
    /\ Done(i) /\ requests[i].fn = "h10"
    /\ MethodsLogged(i) = regularConsoleMethods
    /\ Len(requests[i].logs) = 8
    /\ \E k \in 1..8 :
         /\ TimeEndLine(requests[i].logs[k])
         /\ requests[i].logs[k].src.method = "log"
         /\ requests[i].logs[k].text = <<"t", ": ", "1", "ms", NL, NL>>
    /\ \E k \in 1..8 :
         /\ TimeEndLine(requests[i].logs[k])
         /\ requests[i].logs[k].src.method = "warn"
         /\ requests[i].logs[k].type = "stdout"
\* A Set or a Map
IsCollection(id) == objects[id].kind \in {"Set", "Map"}

IsRef(value, id) == value.t = "reference" /\ value.v = id

\* Collection a holds collection b as a member, a key or a value.
Holds(a, b) ==
  /\ IsCollection(a) /\ IsCollection(b)
  /\ \E i \in 1..Len(objects[a].entries) :
       \/ IsRef(objects[a].entries[i].key, b)
       \/ IsRef(objects[a].entries[i].value, b)

\* b is reached from a through at most n memberships, and at least one.
RECURSIVE HoldsWithin(_, _, _)
HoldsWithin(a, b, n) ==
  /\ n > 0
  /\ \/ Holds(a, b)
     \/ \E c \in 1..Len(objects) : Holds(a, c) /\ HoldsWithin(c, b, n - 1)

\* Serializing objects[id] meets a collection that is its own ancestor.
MeetsAncestor(id) ==
  \E a \in 1..Len(objects) :
    /\ a = id \/ HoldsWithin(id, a, Len(objects))
    /\ HoldsWithin(a, a, Len(objects))

\* The rendering of a value below the collections in ancestors: a collection
\* among them is the marker, any other is rendered in full.
RECURSIVE Rendering(_, _)
Rendering(value, ancestors) ==
  IF value.t # "reference" THEN serializeValue(value)
  ELSE IF value.v \in ancestors THEN <<"[Circular reference]">>
  ELSE LET o == objects[value.v]
           below == ancestors \cup {value.v}
           members == [i \in 1..Len(o.entries) |->
                         IF o.kind = "Map"
                           THEN Rendering(o.entries[i].key, below) \o <<" => ">>
                                \o Rendering(o.entries[i].value, below)
                           ELSE Rendering(o.entries[i].value, below)]
       IN IF IsCollection(value.v)
            THEN <<o.kind, "(", String(Len(o.entries)), ") { ">>
                 \o JoinFrom(members, 1, ", ") \o <<" }">>
            ELSE serializeValueCatch(JSONstringify(value, <<>>)).text

\* The objects among the arguments of the latest serialization.
SerializedObjects ==
  {serialized.args[i].v : i \in {j \in 1..Len(serialized.args) :
                                   serialized.args[j].t = "reference"}}

HasMarker(text, marker) == \E i \in 1..Len(text) : text[i] = marker

\* C38: in the text of serialized console arguments a Set or Map that is
\* met while it is itself being serialized, as its own ancestor, is
\* rendered as "[Circular reference]", and every other occurrence of a Set
\* or Map, a repeated one included, is rendered in full: the text is the
\* rendering by ancestors, and the marker appears exactly when an argument
\* reaches a collection that holds itself.
C38_CircularOnlyForAncestors ==
  (serialized.args # <<>> /\ ~serialized.threw) =>
    /\ serialized.text =
         JoinFrom([i \in 1..Len(serialized.args) |->
                     IF serialized.args[i].t = "string"
                       THEN <<serialized.args[i].v>>
                       ELSE Rendering(serialized.args[i], {})], 1, " ") \o <<NL>>
    /\ HasMarker(serialized.text, "[Circular reference]")
         <=> \E id \in SerializedObjects : MeetsAncestor(id)

\* A Map that holds the same empty Map under two keys was serialized: the
\* shared Map is rendered in full at both places.
C38_Witness ==
  /\ Len(objects) = 2
  /\ objects[1].kind = "Map"
  /\ objects[1].entries = <<[key |-> Str("a"), value |-> Ref(2)],
                          [key |-> Str("b"), value |-> Ref(2)]>>
  /\ objects[2] = Container("Map")
  /\ serialized.text =
       <<"hello", " ",
         "Map", "(", "2", ") { ",
           "\"", "a", "\"", " => ", "Map", "(", "0", ") { ", " }", ", ",
           "\"", "b", "\"", " => ", "Map", "(", "0", ") { ", " }",
         " }", " ",
         "Map", "(", "0", ") { ", " }", NL>>

\* A Set that holds itself, and two Maps that hold each other, were
\* serialized: the ancestor is the marker.
C38_CircularReached ==
  /\ Len(objects) = 2
  /\ objects[1].kind = "Set"
  /\ objects[1].entries = <<[key |-> Num(5), value |-> Num(5)],
                          [key |-> Ref(1), value |-> Ref(1)]>>
  /\ serialized.args = <<Str("hello"), Ref(1), Ref(2)>>
  /\ SubSeq(serialized.text, 1, 11) =
       <<"hello", " ", "Set", "(", "2", ") { ", "5", ", ", "[Circular reference]",
         " }", " ">>

\* A Set that holds a plain object that has the Set as a property: the
\* plain object is encoded by JSON.stringify, which encodes the Set as {}.
C38_ThroughPlainObjectReached ==
  /\ Len(objects) = 2
  /\ objects[1].kind = "Set" /\ objects[2].kind = "Object"
  /\ objects[1].entries = <<[key |-> Ref(2), value |-> Ref(2)]>>
  /\ objects[2].entries = <<[key |-> Str("a"), value |-> Ref(1)]>>
  /\ Len(serialized.values) = 3
  /\ serialized.values[2] =
       <<"Set", "(", "1", ") { ", "{", "\"", "a", "\":", "{}", "}", " }">>

C38_MutualReached ==
  /\ Len(objects) = 2
  /\ objects[1].kind = "Map" /\ objects[2].kind = "Map"
  /\ objects[1].entries = <<[key |-> Str("a"), value |-> Ref(2)]>>
  /\ objects[2].entries = <<[key |-> Str("b"), value |-> Ref(1)]>>
  /\ serialized.text =
       <<"hello", " ",
         "Map", "(", "1", ") { ", "\"", "a", "\"", " => ",
           "Map", "(", "1", ") { ", "\"", "b", "\"", " => ", "[Circular reference]", " }",
         " }", " ",
         "Map", "(", "1", ") { ", "\"", "b", "\"", " => ",
           "Map", "(", "1", ") { ", "\"", "a", "\"", " => ", "[Circular reference]", " }",
         " }", NL>>
\* Plain object a has plain object b as the value of a property.
HasProperty(a, b) ==
  /\ objects[a].kind = "Object" /\ objects[b].kind = "Object"
  /\ \E i \in 1..Len(objects[a].entries) : IsRef(objects[a].entries[i].value, b)

RECURSIVE PropertyWithin(_, _, _)
PropertyWithin(a, b, n) ==
  /\ n > 0
  /\ \/ HasProperty(a, b)
     \/ \E c \in 1..Len(objects) : HasProperty(a, c) /\ PropertyWithin(c, b, n - 1)

\* The structural encoding of plain object id fails: the object, or a plain
\* object below it, has a bigint as a property or is below itself.
EncodingFails(id) ==
  /\ objects[id].kind = "Object"
  /\ \E a \in 1..Len(objects) :
       /\ a = id \/ PropertyWithin(id, a, Len(objects))
       /\ \/ PropertyWithin(a, a, Len(objects))
          \/ \E i \in 1..Len(objects[a].entries) : objects[a].entries[i].value.t = "bigint"

C39_CircularExitReached ==
  /\ Len(objects) = 1
  /\ objects[1].kind = "Map"
  /\ objects[1].entries = <<[key |-> Str("a"), value |-> Num(5)],
                            [key |-> Str("b"), value |-> Ref(1)]>>
  /\ serialized.text =
       <<"hello", " ", "Map", "(", "2", ") { ", "\"", "a", "\"", " => ", "5", ", ",
         "\"", "b", "\"", " => ", "[Circular reference]", " }", NL>>
  /\ serialized.balanced

\* A plain object with a bigint, and one that is encoded.
C39_BigIntReached ==
  /\ Len(objects) = 2
  /\ objects[1].kind = "Object" /\ objects[2].kind = "Object"
  /\ objects[1].entries = <<[key |-> Str("a"), value |-> BigInt(7)]>>
  /\ objects[2].entries = <<[key |-> Str("a"), value |-> Num(5)]>>
  /\ serialized.values =
       <<<<"hello">>, <<"[Unserializable value]">>, <<"{", "\"", "a", "\":", "5", "}">>>>
====
